---- MODULE Spec2Model ----
(***************************************************************************)
(* The sunxi SPL SPI loader (arch/arm/mach-sunxi/spl_spi_sunxi.c): one     *)
(* call of spl_spi_load_image, stepped from bus transfer to bus transfer.  *)
(* The build configuration is chosen in Init and never changes; the boot   *)
(* device, the flash content and the behaviour of the external helpers     *)
(* (legacy header parser, FIT loader, NAND status) are inputs drawn from   *)
(* small sets. Spec follows the load with each transfer as one step;       *)
(* SpecXfer follows spi0_init, the spi0_xfer calls and spi0_deinit of a    *)
(* load register access by register access, against a controller that     *)
(* clocks the bytes and completes its resets at its own pace; SpecCtl      *)
(* calls spi0_init and spi0_deinit in any order from any prior state of    *)
(* the registers; SpecBlock follows the SPI NAND block interface:          *)
(* spinand_init, calls of spinand_spl_read_block, spinand_deselect.        *)
(***************************************************************************)
EXTENDS Integers, Sequences, FiniteSets, TLC

(***************************************************************************)
(* Bounds of the model and input sets                                      *)
(***************************************************************************)

\* How many read calls the external FIT loader issues at most.
MaxFitReads == 2

\* How many spi0_xfer calls a load is followed through, register by register.
MaxXfers == 2

\* How many calls of spi0_init and spi0_deinit are made in a row.
MaxCtlCalls == 3

\* CONFIG_SPL_SPINAND_PAGE_SIZE values of the builds that are explored.
PageSizes == {512, 2048}

\* sunxi_get_spl_size() results: below the configured offset, and above it
\* at column 2000 of a 2048-byte page (2048 * 16 + 2000).
SplSizes == {24576, 34768}

\* Sizes and load addresses the legacy header parser may declare.
PayloadSizes == {0, 200, 4096}
LoadAddrs == {4096, 1107296256}

\* Errors of the external legacy header parser and results of the FIT loader.
ParserErrors == {-93, -22}
FitResults == {0, -5, 1}

\* Arguments of the read calls the FIT loader issues.
FitOffsets == {2000, 2047, 16777186}
FitCounts == {0, 1, 61, 200}
FitBuffers == {1140850688}

\* CONFIG_SPL_SPINAND_BLOCK_SIZE values of the builds that are explored.
BlockSizes == {131072, 262144}

\* Arguments of spinand_spl_read_block: the block number, the byte offset in
\* the block, the length and the destination. The largest block numbers are
\* the last whose byte offset is still an int.
Blocks == {0, 3, 8191, 16383}
BlockOffsets == {0, 2000}
BlockLens == {0, 100, 2100}
BlockBuffers == {1107296256}

\* The largest value of an int, the type of block and offset.
INT_MAX == 2147483647

\* Status bytes the NAND chip may answer to Get Feature (0fh, c0h).
StatusBytes == {0, 1, 2, 3}

\* The builds that are explored, each the set of the CONFIG_ symbols (of
\* those spl_spi_sunxi.c tests) that the SoC's Kconfig entry enables: A10,
\* R40, H3, A64, H6, H616, R528, F1C100s, V3s.
SocConfigs ==
    { {"MACH_SUN4I", "SUNXI_GEN_SUN4I"},
      {"MACH_SUN8I_R40", "SUNXI_GEN_SUN6I"},
      {"MACH_SUN8I_H3", "SUNXI_GEN_SUN6I"},
      {"MACH_SUN50I", "SUNXI_GEN_SUN6I"},
      {"MACH_SUN50I_H6", "SUN50I_GEN_H6"},
      {"MACH_SUN50I_H616", "SUN50I_GEN_H6"},
      {"MACH_SUN8I_R528", "SUNXI_GEN_NCAT2"},
      {"MACH_SUNIV", "SUNXI_GEN_SUN6I"},
      {"MACH_SUN8I_V3S"} }

\* The build Spec explores: it does not look into the controller.
LoadSocConfigs == { {"MACH_SUN8I_H3", "SUNXI_GEN_SUN6I"} }

\* The spi0_xfer calls the loader makes: Device RESET, Page Data Read, Get
\* Feature with one status byte, Read Data Bytes of 60 and of 4 bytes.
XferCalls ==
    { [tx |-> <<255>>, rxlen |-> 0],
      [tx |-> <<19, 0, 0, 17>>, rxlen |-> 0],
      [tx |-> <<15, 192>>, rxlen |-> 1],
      [tx |-> <<3, 0, 135, 208>>, rxlen |-> 60],
      [tx |-> <<3, 7, 208, 0>>, rxlen |-> 4] }

\* First four header bytes: FDT magic, legacy magic, byte-swapped FDT magic,
\* no magic at all; "rest" stands for the remaining 60 bytes.
HeaderMagics ==
    { <<208, 13, 254, 237>>, <<39, 5, 25, 86>>, <<237, 254, 13, 208>>, <<0, 0, 0, 0>> }
Headers == [magic4 : HeaderMagics, rest : {0, 1}]
NoHeader == [magic4 |-> <<>>, rest |-> 0]

(***************************************************************************)
(* Program constants                                                       *)
(***************************************************************************)

SPI_READ_MAX_SIZE == 60
NAND_POLL_LIMIT == 100
EINVAL == 22
ETIMEDOUT == 110
\* 32-bit magic words as <<high half, low half>>: 0xd00dfeed and 0x27051956.
FDT_MAGIC == <<53261, 65261>>
IH_MAGIC == <<9989, 6486>>
CONFIG_TEXT_BASE == 1241513984
CONFIG_SYS_SPI_U_BOOT_OFFS == 32768
HEADER_SIZE == 64
\* Register offsets of the two controller generations; the start bits
\* SUN4I_CTL_XCH = BIT(10) and SUN6I_TCR_XCH = BIT(31) as bit numbers.
SUN4I_SPI0_CTL == 8
SUN4I_SPI0_RX == 0
SUN4I_SPI0_TX == 4
SUN4I_SPI0_FIFO_STA == 40
SUN4I_SPI0_BC == 32
SUN4I_SPI0_TC == 36
SUN4I_CTL_XCH == 10
SUN6I_SPI0_TCR == 8
SUN6I_SPI0_FIFO_STA == 28
SUN6I_SPI0_MBC == 48
SUN6I_SPI0_MTC == 52
SUN6I_SPI0_BCC == 56
SUN6I_SPI0_TXD == 512
SUN6I_SPI0_RXD == 768
SUN6I_TCR_XCH == 31
SUN4I_SPI0_CCTL == 28
SUN4I_CTL_ENABLE == 0
SUN4I_CTL_MASTER == 1
SUN4I_CTL_TF_RST == 8
SUN4I_CTL_RF_RST == 9
SUN6I_SPI0_CCTL == 36
SUN6I_SPI0_GCR == 4
SUN6I_CTL_ENABLE == 0
SUN6I_CTL_MASTER == 1
SUN6I_CTL_SRST == 31
SUN6I_TCR_SDM == 13
AHB_RESET_SPI0_SHIFT == 20
AHB_GATE_OFFSET_SPI0 == 20

\* (u8)x. Addresses, lengths and sizes of the model stay below 2^31, so the
\* 32-bit variables of the code (u32, ulong, uint32_t) never wrap here.
U8(x) == x % 256
Min(a, b) == IF a < b THEN a ELSE b
\* Mutant of max_t_u32: the smaller of the two.
max_t_u32_Min(a, b) == IF a < b THEN a ELSE b

\* max_t(uint32_t, a, b)
max_t_u32(a, b) == IF a > b THEN a ELSE b

VARIABLES
    CONFIG_SOC,                 \* build: the enabled SoC symbols
    CONFIG_SPL_LOAD_FIT,        \* build: FIT images are supported
    CONFIG_SPL_SPINAND_SUPPORT, \* build: the SPI NAND code is compiled in
    pagesize,                   \* build: CONFIG_SPL_SPINAND_PAGE_SIZE
    pc,                         \* position in spl_spi_load_image and callees
    boot_device,                \* bootdev->boot_device
    spl_size,                   \* what sunxi_get_spl_size() returned
    load_offset,                \* spl_spi_load_image: load_offset
    load_read,                  \* load.read: "none", "nor" or "nand"
    allow_raw,                  \* spl_spi_load_image: allow_raw
    ret,                        \* the status being accumulated
    header,                     \* the header buffer at CONFIG_TEXT_BASE
    spl_image,                  \* size and load_addr set by the parser
    rd,                         \* the running read call: site and arguments
    rv,                         \* the value the read call returned
    nand,                       \* locals of spi_load_read_nand
    sw,                         \* locals of spi0_nand_switch_page, and its polls
    rdd,                        \* locals of spi0_read_data
    spi_on,                     \* the controller is initialised
    inits, deinits, resets,     \* calls of spi0_init, spi0_deinit, spi0_nand_reset
    lastXfer,                   \* the last spi0_xfer: tx bytes and rx length
    lastDelay,                  \* the udelay that followed it in its function
    xferOff,                    \* a transfer was issued with the controller off
    xlog,                       \* page-switch and data transfers of the read call
    reads,                      \* read calls issued by spl_spi_try_load itself
    parseCalls, fitCalls,       \* calls of the external parser and FIT loader
    fitReads,                   \* read calls issued by the FIT loader
    timedOut,                   \* the running read call hit a page-switch timeout
    coreTimedOut,               \* a read call of spl_spi_try_load timed out
    fitCall,                    \* the arguments spl_load_simple_fit was called with
    fitRet,                     \* what spl_load_simple_fit returned
    parseRet,                   \* what spl_parse_image_header returned
    xfer,                       \* sunxi_spi0_xfer: position, arguments, locals
    hw,                         \* the controller: counters, start bit, FIFOs
    xtrace,                     \* the register accesses of the spi0_xfer call
    ctl,                        \* spi0_init or spi0_deinit: the function, its position
    creg,                       \* registers of the controller and the CCM, pin functions
    ctrace,                     \* the register accesses of the spi0_init/spi0_deinit call
    hist,                       \* calls made so far and what they found and left
    blk                         \* spinand_spl_read_block: build, arguments, result

cfgVars == <<CONFIG_SOC, CONFIG_SPL_LOAD_FIT, CONFIG_SPL_SPINAND_SUPPORT, pagesize>>
loadVars == <<boot_device, spl_size, load_offset, load_read, allow_raw, ret, header, spl_image>>
readVars == <<rd, rv, nand, sw, rdd>>
ctlVars == <<spi_on, inits, deinits, resets>>
busVars == <<lastXfer, lastDelay, xferOff, xlog>>
extVars == <<reads, parseCalls, fitCalls, fitReads, timedOut, coreTimedOut>>
retVars == <<fitCall, fitRet, parseRet>>
initVars == <<ctl, creg, ctrace, hist>>
regVars == <<xfer, hw, xtrace, initVars>>
vars == <<cfgVars, pc, loadVars, readVars, ctlVars, busVars, extVars, retVars,
          regVars, blk>>

NoRd == [site |-> "none", sector |-> 0, count |-> 0, buf |-> 0]
NoNand == [remain |-> 0, sector |-> 0, buf |-> 0, count_in_page |-> 0, current_page |-> 0]
NoSw == [count |-> 0, ret |-> 0, polls |-> 0, busy |-> 0, delay |-> 0]
NoRdd == [addr |-> 0, len |-> 0, buf8 |-> 0, addr_len |-> 0]
NoXfer == [tx |-> <<>>, rxlen |-> 0]
NoFitCall == [read |-> "none", offset |-> 0, header |-> 0]
NoRegs == [ctl |-> 0, xch |-> 0, fifo |-> 0, tx |-> 0, rx |-> 0, bc |-> 0, tc |-> 0,
           bcc |-> 0]
NoX == [pc |-> "idle", txbuf |-> <<>>, txlen |-> 0, rxbuf |-> <<>>, rxlen |-> 0,
        i |-> 0, r |-> NoRegs, spun |-> FALSE]
NoCtl == [fn |-> "none", ops |-> <<>>, i |-> 0, spun |-> FALSE]
NoCreg == [mem |-> <<>>, pins |-> <<>>]
NoHist == [calls |-> 0, xfers |-> 0, lastFn |-> "none", prevFn |-> "none",
           entry |-> NoCreg, first |-> [init |-> <<>>, deinit |-> <<>>]]
NoBlk == [bs |-> 0, block |-> 0, offset |-> 0, len |-> 0, dst |-> 0, ret |-> 0,
          state |-> "none", entry |-> <<FALSE, 0, 0, 0>>]
HwIdle == [bc |-> 0, tc |-> 0, bcc |-> 0, xch |-> FALSE, txfifo |-> <<>>,
           rxfifo |-> <<>>, clocked |-> 0, wire |-> <<>>]

Init ==
    /\ CONFIG_SOC \in LoadSocConfigs
    /\ CONFIG_SPL_LOAD_FIT \in BOOLEAN
    /\ CONFIG_SPL_SPINAND_SUPPORT \in BOOLEAN
    /\ pagesize \in (IF CONFIG_SPL_SPINAND_SUPPORT THEN PageSizes ELSE {0})
    /\ pc = "idle"
    /\ boot_device = "none"
    /\ spl_size = 0
    /\ load_offset = 0
    /\ load_read = "none"
    /\ allow_raw = FALSE
    /\ ret = 0
    /\ header = NoHeader
    /\ spl_image = [size |-> 0, load_addr |-> 0]
    /\ rd = NoRd
    /\ rv = 0
    /\ nand = NoNand
    /\ sw = NoSw
    /\ rdd = NoRdd
    /\ spi_on = FALSE
    /\ inits = 0
    /\ deinits = 0
    /\ resets = 0
    /\ lastXfer = NoXfer
    /\ lastDelay = 0
    /\ xferOff = FALSE
    /\ xlog = <<>>
    /\ reads = <<>>
    /\ parseCalls = 0
    /\ fitCalls = 0
    /\ fitReads = 0
    /\ timedOut = FALSE
    /\ coreTimedOut = FALSE
    /\ fitCall = NoFitCall
    /\ fitRet = 0
    /\ parseRet = 0
    /\ xfer = NoX
    /\ hw = HwIdle
    /\ xtrace = <<>>
    /\ ctl = NoCtl
    /\ creg = NoCreg
    /\ ctrace = <<>>
    /\ hist = NoHist
    /\ blk = NoBlk

(***************************************************************************)
(* The bus                                                                 *)
(***************************************************************************)

\* spi0_xfer(txbuf, txlen, rxbuf, rxlen): one transfer on the bus.
spi0_xfer(tx, rxlen) ==
    /\ lastXfer' = [tx |-> tx, rxlen |-> rxlen]
    /\ xferOff' = (xferOff \/ ~spi_on)

\* The boot devices the loader is registered for.
BootDevices ==
    {"SPI"} \cup (IF CONFIG_SPL_SPINAND_SUPPORT THEN {"SPINAND"} ELSE {})

(***************************************************************************)
(* spl_spi_load_image, up to the call of spl_spi_try_load                  *)
(***************************************************************************)

\* Mutant of SplSpiLoadImage_Begin: spi0_init is not called.
SplSpiLoadImage_Begin_NoInit ==
    /\ pc = "idle"
    /\ \E dev \in BootDevices, spl \in SplSizes :
        /\ boot_device' = dev
        /\ spl_size' = spl
        /\ load_offset' = max_t_u32(spl, CONFIG_SYS_SPI_U_BOOT_OFFS)
        /\ IF dev = "SPINAND"
           THEN /\ pc' = "nand_reset"
                /\ UNCHANGED <<load_read, allow_raw>>
           ELSE /\ pc' = "try_load"
                /\ load_read' = "nor"
                /\ allow_raw' = TRUE
    /\ UNCHANGED <<cfgVars, blk, regVars, retVars, ret, header, spl_image, readVars,
                   ctlVars, busVars, extVars>>

\* spl_spi_load_image: the load offset, spi0_init, the switch on the boot
\* device.
SplSpiLoadImage_Begin ==
    /\ pc = "idle"
    /\ \E dev \in BootDevices, spl \in SplSizes :
        /\ boot_device' = dev
        /\ spl_size' = spl
        /\ load_offset' = max_t_u32(spl, CONFIG_SYS_SPI_U_BOOT_OFFS)
        /\ spi_on' = TRUE
        /\ inits' = inits + 1
        /\ IF dev = "SPINAND"
           THEN /\ pc' = "nand_reset"
                /\ UNCHANGED <<load_read, allow_raw>>
           ELSE /\ pc' = "try_load"
                /\ load_read' = "nor"
                /\ allow_raw' = TRUE
    /\ UNCHANGED <<cfgVars, blk, regVars, retVars, ret, header, spl_image, readVars,
                   deinits, resets, busVars, extVars>>

\* Mutant of Spi0NandReset: the chip is not given time to reset.
Spi0NandReset_NoDelay ==
    /\ pc = "nand_reset"
    /\ spi0_xfer(<<255>>, 0)
    /\ lastDelay' = 0
    /\ resets' = resets + 1
    /\ load_read' = "nand"
    /\ pc' = "try_load"
    /\ UNCHANGED <<cfgVars, blk, regVars, retVars, boot_device, spl_size,
                   load_offset, allow_raw, ret, header, spl_image, readVars,
                   spi_on, inits, deinits, xlog, extVars>>

\* spi0_nand_reset: the Device RESET (ffh) transfer and udelay(10); then
\* spl_load_init with the NAND reader.
\* Mutant of Spi0NandReset: the NOR reader is registered for the NAND.
Spi0NandReset_NorReader ==
    /\ pc = "nand_reset"
    /\ spi0_xfer(<<255>>, 0)
    /\ lastDelay' = 10
    /\ resets' = resets + 1
    /\ load_read' = "nor"
    /\ pc' = "try_load"
    /\ UNCHANGED <<cfgVars, blk, regVars, retVars, boot_device, spl_size,
                   load_offset, allow_raw, ret, header, spl_image, readVars,
                   spi_on, inits, deinits, xlog, extVars>>

Spi0NandReset ==
    /\ pc = "nand_reset"
    /\ spi0_xfer(<<255>>, 0)
    /\ lastDelay' = 10
    /\ resets' = resets + 1
    /\ load_read' = "nand"
    /\ pc' = "try_load"
    /\ UNCHANGED <<cfgVars, blk, regVars, retVars, boot_device, spl_size,
                   load_offset, allow_raw, ret, header, spl_image, readVars,
                   spi_on, inits, deinits, xlog, extVars>>

(***************************************************************************)
(* The read functions                                                      *)
(***************************************************************************)

\* load->read(load, sector, count, buf): enter the read function load.read
\* names. spi_load_read_nor passes its arguments on to spi0_read_data with
\* addr_len 3; spi_load_read_nand starts with remain = count.
CallRead(site, sector, count, buf) ==
    /\ rd' = [site |-> site, sector |-> sector, count |-> count, buf |-> buf]
    /\ rv' = 0
    /\ sw' = NoSw
    /\ xlog' = <<>>
    /\ timedOut' = FALSE
    /\ IF load_read = "nor"
       THEN /\ rdd' = [addr |-> sector, len |-> count, buf8 |-> buf,
                       addr_len |-> 3]
            /\ nand' = NoNand
            /\ pc' = "read_data"
       ELSE /\ nand' = [remain |-> count, sector |-> sector, buf |-> buf,
                        count_in_page |-> 0, current_page |-> 0]
            /\ rdd' = NoRdd
            /\ pc' = "nand_loop"

\* Mutant of ChunkLen: the chunk is capped at the whole FIFO, the four header
\* bytes forgotten.
ChunkLen_WholeFifo(len) == IF len > 64 THEN 64 ELSE len

\* spi0_read_data: chunk_len = len, capped at SPI_READ_MAX_SIZE.
ChunkLen(len) == IF len > SPI_READ_MAX_SIZE THEN SPI_READ_MAX_SIZE ELSE len

\* Mutant of ReadDataHeader: the three address bytes go out low byte first.
ReadDataHeader_LittleEndian(addr, addr_len) ==
    IF addr_len = 3
    THEN <<3, U8(addr), U8(addr \div 256), U8(addr \div 65536)>>
    ELSE <<3, U8(addr \div 256), U8(addr), 0>>

\* Mutant of ReadDataHeader: the two-byte column goes out in the place of a
\* three-byte address, no dummy byte behind it.
ReadDataHeader_NoDummy(addr, addr_len) ==
    <<3, U8(addr \div 65536), U8(addr \div 256), U8(addr)>>

\* spi0_read_data: the Read Data Bytes (03h) command header.
ReadDataHeader(addr, addr_len) ==
    IF addr_len = 3
    THEN <<3, U8(addr \div 65536), U8(addr \div 256), U8(addr)>>
    ELSE <<3, U8(addr \div 256), U8(addr), 0>>

\* spi0_read_data: one iteration of while (len > 0).
Spi0ReadData_Chunk ==
    /\ pc = "read_data"
    /\ rdd.len > 0
    /\ LET chunk_len == ChunkLen(rdd.len)
           txbuf == ReadDataHeader(rdd.addr, rdd.addr_len)
       IN /\ spi0_xfer(txbuf, chunk_len)
          /\ lastDelay' = 1
          /\ xlog' = Append(xlog, [kind |-> "data", hdr |-> txbuf, len |-> chunk_len,
                                   addr |-> rdd.addr, dst |-> rdd.buf8])
          /\ rdd' = [rdd EXCEPT !.len = @ - chunk_len,
                                !.buf8 = @ + chunk_len,
                                !.addr = @ + chunk_len]
    /\ UNCHANGED <<cfgVars, blk, regVars, retVars, pc, loadVars, rd, rv, nand, sw,
                   ctlVars, extVars>>

\* spi_load_read_nor: spi0_read_data is through, return count.
SpiLoadReadNor_Return ==
    /\ pc = "read_data"
    /\ rdd.len = 0
    /\ load_read = "nor"
    /\ rv' = rd.count
    /\ pc' = "read_ret"
    /\ UNCHANGED <<cfgVars, blk, regVars, retVars, loadVars, rd, nand, sw, rdd,
                   ctlVars, busVars, extVars>>

\* Mutant of CountInPage: the last byte of a page is not counted.
CountInPage_PageEnd(remain, sector) ==
    Min(remain, pagesize - 1 - (sector % pagesize))

\* Mutant of CountInPage: the column of the first page is forgotten.
CountInPage_NoColumn(remain, sector) == Min(remain, pagesize)

\* spi_load_read_nand: count_in_page of an iteration.
CountInPage(remain, sector) == Min(remain, pagesize - (sector % pagesize))

\* Mutant of CurrentPage: the page index is rounded to the nearest page.
CurrentPage_Rounded(sector) == (sector + pagesize \div 2) \div pagesize

\* spi_load_read_nand: current_page of an iteration.
CurrentPage(sector) == sector \div pagesize

\* spi0_nand_switch_page: the Page Data Read (13h) command header.
SwitchPageHeader(page) ==
    <<19, U8(page \div 65536), U8(page \div 256), U8(page)>>

\* spi_load_read_nand: while (remain), up to the page-switch command that
\* spi0_nand_switch_page sends first.
SpiLoadReadNand_SwitchPage ==
    /\ pc = "nand_loop"
    /\ nand.remain # 0
    /\ LET count_in_page == CountInPage(nand.remain, nand.sector)
           current_page == CurrentPage(nand.sector)
           buf == SwitchPageHeader(current_page)
       IN /\ nand' = [nand EXCEPT !.count_in_page = count_in_page,
                                  !.current_page = current_page]
          /\ spi0_xfer(buf, 0)
          /\ lastDelay' = 0
          /\ xlog' = Append(xlog, [kind |-> "switch", hdr |-> buf, len |-> 0,
                                   addr |-> current_page, dst |-> 0])
    /\ sw' = NoSw
    /\ pc' = "switch_poll"
    /\ UNCHANGED <<cfgVars, blk, regVars, retVars, loadVars, rd, rv, rdd, ctlVars,
                   extVars>>

\* spi_load_read_nand: remain is 0, return count.
SpiLoadReadNand_Return ==
    /\ pc = "nand_loop"
    /\ nand.remain = 0
    /\ rv' = rd.count
    /\ pc' = "read_ret"
    /\ UNCHANGED <<cfgVars, blk, regVars, retVars, loadVars, rd, nand, sw, rdd,
                   ctlVars, busVars, extVars>>

\* spi0_nand_switch_page: the chip is busy while bit 0 of the status is set.
IsBusy(status) == status % 2 = 1

\* Mutant of PollAgain: one poll too many.
PollAgain_OffByOne(count) == count <= NAND_POLL_LIMIT

\* spi0_nand_switch_page: the loop runs while count is below the limit.
PollAgain(count) == count < NAND_POLL_LIMIT

\* spi0_nand_switch_page: one iteration of the status loop: udelay(1), the
\* Get Feature transfer, the test of the status byte.
Spi0NandSwitchPage_Poll ==
    /\ pc = "switch_poll"
    /\ PollAgain(sw.count)
    /\ spi0_xfer(<<15, 192>>, 1)
    /\ lastDelay' = 0
    /\ \E status \in StatusBytes :
        /\ sw' = [count |-> IF IsBusy(status) THEN sw.count + 1 ELSE sw.count,
                  ret |-> 0,
                  polls |-> sw.polls + 1,
                  busy |-> IF status % 2 = 1 THEN sw.busy + 1 ELSE sw.busy,
                  delay |-> sw.delay + 1]
        /\ pc' = IF IsBusy(status) THEN "switch_poll" ELSE "switch_ret"
    /\ UNCHANGED <<cfgVars, blk, regVars, retVars, loadVars, rd, rv, nand, rdd,
                   ctlVars, xlog, extVars>>

\* spi0_nand_switch_page: the loop ran out, return -ETIMEDOUT.
Spi0NandSwitchPage_Timeout ==
    /\ pc = "switch_poll"
    /\ ~PollAgain(sw.count)
    /\ sw' = [sw EXCEPT !.ret = -ETIMEDOUT]
    /\ pc' = "switch_ret"
    /\ UNCHANGED <<cfgVars, blk, regVars, retVars, loadVars, rd, rv, nand, rdd,
                   ctlVars, busVars, extVars>>

\* Mutant of SwitchFailed: the result of the page switch is ignored.
SwitchFailed_Ignored(r) == FALSE

\* spi_load_read_nand: if (spi0_nand_switch_page(current_page) != 0).
SwitchFailed(r) == r # 0

\* Mutant of NandAbortCount: the bytes read before the failure are returned.
NandAbortCount_Partial(count, remain) == count - remain

\* spi_load_read_nand: what the call returns when a page switch failed.
NandAbortCount(count, remain) == 0

\* spi_load_read_nand: the page switch failed, return 0.
\* Mutant of SpiLoadReadNand_Abort: the bytes already stored are taken back.
SpiLoadReadNand_Abort_Restore ==
    /\ pc = "switch_ret"
    /\ SwitchFailed(sw.ret)
    /\ rv' = NandAbortCount(rd.count, nand.remain)
    /\ timedOut' = (sw.ret = -ETIMEDOUT)
    /\ coreTimedOut' = (coreTimedOut \/ (sw.ret = -ETIMEDOUT /\ rd.site # "fit"))
    /\ sw' = NoSw
    /\ xlog' = SelectSeq(xlog, LAMBDA e : e.kind = "switch")
    /\ pc' = "read_ret"
    /\ UNCHANGED <<cfgVars, blk, regVars, retVars, loadVars, rd, nand, rdd, ctlVars,
                   lastXfer, lastDelay, xferOff, reads, parseCalls, fitCalls,
                   fitReads>>

SpiLoadReadNand_Abort ==
    /\ pc = "switch_ret"
    /\ SwitchFailed(sw.ret)
    /\ rv' = NandAbortCount(rd.count, nand.remain)
    /\ timedOut' = (sw.ret = -ETIMEDOUT)
    /\ coreTimedOut' = (coreTimedOut \/ (sw.ret = -ETIMEDOUT /\ rd.site # "fit"))
    /\ sw' = NoSw
    /\ pc' = "read_ret"
    /\ UNCHANGED <<cfgVars, blk, regVars, retVars, loadVars, rd, nand, rdd, ctlVars,
                   busVars, reads, parseCalls, fitCalls, fitReads>>

\* spi_load_read_nand: the page is loaded, read count_in_page bytes from
\* column sector % pagesize with a two-byte address.
SpiLoadReadNand_ReadPage ==
    /\ pc = "switch_ret"
    /\ ~SwitchFailed(sw.ret)
    /\ rdd' = [addr |-> nand.sector % pagesize, len |-> nand.count_in_page,
               buf8 |-> nand.buf, addr_len |-> 2]
    /\ timedOut' = (timedOut \/ sw.ret = -ETIMEDOUT)
    /\ coreTimedOut' = (coreTimedOut \/ (sw.ret = -ETIMEDOUT /\ rd.site # "fit"))
    /\ sw' = NoSw
    /\ pc' = "read_data"
    /\ UNCHANGED <<cfgVars, blk, regVars, retVars, loadVars, rd, rv, nand, ctlVars,
                   busVars, reads, parseCalls, fitCalls, fitReads>>

\* spi_load_read_nand: the page's data is read, advance to the next page.
SpiLoadReadNand_NextPage ==
    /\ pc = "read_data"
    /\ rdd.len = 0
    /\ load_read = "nand"
    /\ nand' = [nand EXCEPT !.remain = @ - nand.count_in_page,
                            !.sector = @ + nand.count_in_page,
                            !.buf = @ + nand.count_in_page]
    /\ pc' = "nand_loop"
    /\ UNCHANGED <<cfgVars, blk, regVars, retVars, loadVars, rd, rv, sw, rdd,
                   ctlVars, busVars, extVars>>

(***************************************************************************)
(* spl_spi_try_load                                                        *)
(***************************************************************************)

\* spl_spi_try_load: load->read(load, offset, 0x40, header).
TryLoad_ReadHeader ==
    /\ pc = "try_load"
    /\ CallRead("hdr", load_offset, HEADER_SIZE, CONFIG_TEXT_BASE)
    /\ reads' = Append(reads, [site |-> "hdr", offset |-> load_offset,
                               count |-> HEADER_SIZE, buf |-> CONFIG_TEXT_BASE])
    /\ UNCHANGED <<cfgVars, blk, regVars, retVars, loadVars, ctlVars, lastXfer,
                   lastDelay, xferOff, parseCalls, fitCalls, fitReads,
                   coreTimedOut>>

\* image_get_magic: the first four header bytes as a big-endian 32-bit word,
\* written <<high half, low half>>.
image_get_magic(h) ==
    <<h.magic4[1] * 256 + h.magic4[2], h.magic4[3] * 256 + h.magic4[4]>>

\* Mutant of Classify: the raw test comes before the FIT test.
Classify_RawFirst(h, raw) ==
    IF ~raw /\ image_get_magic(h) # IH_MAGIC THEN "invalid"
    ELSE IF CONFIG_SPL_LOAD_FIT /\ image_get_magic(h) = FDT_MAGIC THEN "fit"
    ELSE "parse"

\* Mutant of Classify: the legacy load needs allow_raw and the legacy magic.
Classify_RawAndLegacy(h, raw) ==
    IF CONFIG_SPL_LOAD_FIT /\ image_get_magic(h) = FDT_MAGIC THEN "fit"
    ELSE IF raw /\ image_get_magic(h) = IH_MAGIC THEN "parse"
    ELSE "invalid"

\* Mutant of Classify: the magic is never tested against IH_MAGIC.
Classify_NoLegacyTest(h, raw) ==
    IF CONFIG_SPL_LOAD_FIT /\ image_get_magic(h) = FDT_MAGIC THEN "fit"
    ELSE "parse"

\* spl_spi_try_load: where a header that was read goes: to the FIT loader,
\* to the -EINVAL return, or to spl_parse_image_header.
Classify(h, raw) ==
    IF CONFIG_SPL_LOAD_FIT /\ image_get_magic(h) = FDT_MAGIC THEN "fit"
    ELSE IF ~raw /\ image_get_magic(h) # IH_MAGIC THEN "invalid"
    ELSE "parse"

\* Mutant of ReadFailed: the result of a read call is not looked at.
\* Mutant of ReadFailed: only a negative result counts as a failed read.
ReadFailed_Negative(r) == r < 0

ReadFailed_Never(r) == FALSE

\* spl_spi_try_load: a read call that returned 0 failed.
ReadFailed(r) == r = 0

\* Mutant of ReadFailStatus: a failed read leaves the status at 0.
ReadFailStatus_Zero == 0 * EINVAL

\* spl_spi_try_load: the status of a load whose read call failed.
ReadFailStatus == -EINVAL

\* Mutant of TryLoad_HeaderReadFailed: a failed header read is tried again.
TryLoad_HeaderReadFailed_Retry ==
    /\ pc = "read_ret"
    /\ rd.site = "hdr"
    /\ ReadFailed(rv)
    /\ ret' = ReadFailStatus
    /\ pc' = "try_load"
    /\ UNCHANGED <<cfgVars, blk, regVars, retVars, boot_device, spl_size,
                   load_offset, load_read, allow_raw, header, spl_image,
                   readVars, ctlVars, busVars, extVars>>

\* spl_spi_try_load: the header read failed.
TryLoad_HeaderReadFailed ==
    /\ pc = "read_ret"
    /\ rd.site = "hdr"
    /\ ReadFailed(rv)
    /\ ret' = ReadFailStatus
    /\ pc' = "deinit"
    /\ UNCHANGED <<cfgVars, blk, regVars, retVars, boot_device, spl_size,
                   load_offset, load_read, allow_raw, header, spl_image,
                   readVars, ctlVars, busVars, extVars>>

\* spl_spi_try_load: the arguments of spl_load_simple_fit(spl_image, load,
\* offset, header), load carrying the read function.
FitArguments(read, offset, hdr) ==
    [read |-> read, offset |-> offset, header |-> hdr]

\* spl_spi_try_load: the header holds the FDT magic, spl_load_simple_fit is
\* called.
TryLoad_LoadFit ==
    /\ pc = "read_ret"
    /\ rd.site = "hdr"
    /\ ~ReadFailed(rv)
    /\ \E h \in Headers :
        /\ Classify(h, allow_raw) = "fit"
        /\ header' = h
    /\ fitCalls' = fitCalls + 1
    /\ fitCall' = FitArguments(load_read, load_offset, CONFIG_TEXT_BASE)
    /\ pc' = "fit"
    /\ UNCHANGED <<cfgVars, blk, regVars, fitRet, parseRet, boot_device, spl_size,
                   load_offset, load_read, allow_raw, ret, spl_image, readVars,
                   ctlVars, busVars, reads, parseCalls, fitReads, timedOut,
                   coreTimedOut>>

\* spl_spi_try_load: raw images are not allowed and the magic is not IH_MAGIC.
TryLoad_BadImage ==
    /\ pc = "read_ret"
    /\ rd.site = "hdr"
    /\ ~ReadFailed(rv)
    /\ \E h \in Headers :
        /\ Classify(h, allow_raw) = "invalid"
        /\ header' = h
    /\ ret' = -EINVAL
    /\ pc' = "deinit"
    /\ UNCHANGED <<cfgVars, blk, regVars, retVars, boot_device, spl_size,
                   load_offset, load_read, allow_raw, spl_image, readVars,
                   ctlVars, busVars, extVars>>

\* Mutant of ParseFailStatus: every parser error becomes -EINVAL.
ParseFailStatus_Einval(e) == -EINVAL

\* spl_spi_try_load: ret = spl_parse_image_header(...); if (ret) return ret.
ParseFailStatus(e) == e

\* spl_spi_try_load: spl_parse_image_header returned an error.
TryLoad_ParseFailed ==
    /\ pc = "read_ret"
    /\ rd.site = "hdr"
    /\ ~ReadFailed(rv)
    /\ \E h \in Headers :
        /\ Classify(h, allow_raw) = "parse"
        /\ header' = h
    /\ parseCalls' = parseCalls + 1
    /\ \E e \in ParserErrors :
        /\ parseRet' = e
        /\ ret' = ParseFailStatus(e)
    /\ pc' = "deinit"
    /\ UNCHANGED <<cfgVars, blk, regVars, fitCall, fitRet, boot_device, spl_size,
                   load_offset, load_read, allow_raw, spl_image, readVars,
                   ctlVars, busVars, reads, fitCalls, fitReads, timedOut,
                   coreTimedOut>>

\* Mutant of PayloadRead: the payload is read from behind the header.
PayloadRead_BehindHeader(offset, image) ==
    [site |-> "payload", offset |-> offset + HEADER_SIZE, count |-> image.size,
     buf |-> image.load_addr]

\* spl_spi_try_load: the payload read, load->read(load, offset,
\* spl_image->size, spl_image->load_addr).
PayloadRead(offset, image) ==
    [site |-> "payload", offset |-> offset, count |-> image.size,
     buf |-> image.load_addr]

\* spl_spi_try_load: spl_parse_image_header succeeded, the payload is read.
TryLoad_ReadPayload ==
    /\ pc = "read_ret"
    /\ rd.site = "hdr"
    /\ ~ReadFailed(rv)
    /\ \E h \in Headers :
        /\ Classify(h, allow_raw) = "parse"
        /\ header' = h
    /\ parseCalls' = parseCalls + 1
    /\ parseRet' = 0
    /\ ret' = 0
    /\ \E size \in PayloadSizes, load_addr \in LoadAddrs :
        LET image == [size |-> size, load_addr |-> load_addr]
            call == PayloadRead(load_offset, image)
        IN /\ spl_image' = image
           /\ reads' = Append(reads, call)
           /\ CallRead("payload", call.offset, call.count, call.buf)
    /\ UNCHANGED <<cfgVars, blk, regVars, fitCall, fitRet, boot_device, spl_size,
                   load_offset, load_read, allow_raw, ctlVars, lastXfer,
                   lastDelay, xferOff, fitCalls, fitReads, coreTimedOut>>

\* spl_spi_try_load: the payload read returned.
TryLoad_AfterPayload ==
    /\ pc = "read_ret"
    /\ rd.site = "payload"
    /\ ret' = IF ReadFailed(rv) THEN ReadFailStatus ELSE ret
    /\ pc' = "deinit"
    /\ UNCHANGED <<cfgVars, blk, regVars, retVars, boot_device, spl_size,
                   load_offset, load_read, allow_raw, header, spl_image,
                   readVars, ctlVars, busVars, extVars>>

(***************************************************************************)
(* spl_load_simple_fit, the external FIT loader                            *)
(***************************************************************************)

\* The FIT loader reads through load->read.
Fit_Read ==
    /\ pc = "fit"
    /\ fitReads < MaxFitReads
    /\ fitReads' = fitReads + 1
    /\ \E offset \in FitOffsets, count \in FitCounts, buf \in FitBuffers :
        CallRead("fit", offset, count, buf)
    /\ UNCHANGED <<cfgVars, blk, regVars, retVars, loadVars, ctlVars, lastXfer,
                   lastDelay, xferOff, reads, parseCalls, fitCalls,
                   coreTimedOut>>

\* A read call of the FIT loader returned to it.
Fit_ReadReturn ==
    /\ pc = "read_ret"
    /\ rd.site = "fit"
    /\ pc' = "fit"
    /\ UNCHANGED <<cfgVars, blk, regVars, retVars, loadVars, readVars, ctlVars,
                   busVars, extVars>>

\* The FIT loader returns its status.
Fit_Return ==
    /\ pc = "fit"
    /\ \E r \in FitResults : fitRet' = r
    /\ pc' = "fit_ret"
    /\ UNCHANGED <<cfgVars, blk, regVars, fitCall, parseRet, loadVars, readVars,
                   ctlVars, busVars, extVars>>

\* Mutant of FitStatus: a failure of the FIT loader is reported as -EINVAL.
FitStatus_Einval(r) == IF r = 0 THEN 0 ELSE -EINVAL

\* spl_spi_try_load: ret = spl_load_simple_fit(...); return ret.
FitStatus(r) == r

\* spl_spi_try_load: the FIT loader's status becomes the status of the load.
TryLoad_AfterFit ==
    /\ pc = "fit_ret"
    /\ ret' = FitStatus(fitRet)
    /\ pc' = "deinit"
    /\ UNCHANGED <<cfgVars, blk, regVars, retVars, boot_device, spl_size,
                   load_offset, load_read, allow_raw, header, spl_image,
                   readVars, ctlVars, busVars, extVars>>

(***************************************************************************)
(* spl_spi_load_image, after spl_spi_try_load                              *)
(***************************************************************************)

\* Mutant of SplSpiLoadImage_Finish: a failed load returns without teardown.
SplSpiLoadImage_Finish_ErrorSkipsDeinit ==
    /\ pc = "deinit"
    /\ spi_on' = (ret # 0 /\ spi_on)
    /\ deinits' = IF ret # 0 THEN deinits ELSE deinits + 1
    /\ pc' = "done"
    /\ UNCHANGED <<cfgVars, blk, regVars, retVars, loadVars, readVars, inits, resets,
                   busVars, extVars>>

\* spl_spi_load_image: spi0_deinit(); return ret.
SplSpiLoadImage_Finish ==
    /\ pc = "deinit"
    /\ spi_on' = FALSE
    /\ deinits' = deinits + 1
    /\ pc' = "done"
    /\ UNCHANGED <<cfgVars, blk, regVars, retVars, loadVars, readVars, inits, resets,
                   busVars, extVars>>

(***************************************************************************)
(* spi0_xfer and sunxi_spi0_xfer, register access by register access       *)
(***************************************************************************)

IS_ENABLED(c) == c \in CONFIG_SOC

is_sun6i_gen_spi ==
    \/ IS_ENABLED("SUNXI_GEN_SUN6I")
    \/ IS_ENABLED("SUN50I_GEN_H6")
    \/ IS_ENABLED("SUNXI_GEN_NCAT2")
    \/ IS_ENABLED("MACH_SUN8I_V3S")

\* spi0_base_address: 0x01C05000, 0x05010000, 0x04025000 or 0x01C68000.
spi0_base_address ==
    IF IS_ENABLED("MACH_SUN8I_R40") THEN 29380608
    ELSE IF IS_ENABLED("SUN50I_GEN_H6") THEN 83951616
    ELSE IF IS_ENABLED("SUNXI_GEN_NCAT2") THEN 67260416
    ELSE IF ~is_sun6i_gen_spi \/ IS_ENABLED("MACH_SUNIV") THEN 29380608
    ELSE 29786112

\* Mutant of SpiRegs: every controller is handed the sun6i registers.
SpiRegs_Sun6iOnly(base) ==
    [ctl |-> base + SUN6I_SPI0_TCR, xch |-> SUN6I_TCR_XCH,
     fifo |-> base + SUN6I_SPI0_FIFO_STA, tx |-> base + SUN6I_SPI0_TXD,
     rx |-> base + SUN6I_SPI0_RXD, bc |-> base + SUN6I_SPI0_MBC,
     tc |-> base + SUN6I_SPI0_MTC, bcc |-> base + SUN6I_SPI0_BCC]

\* spi0_xfer: the registers handed to sunxi_spi0_xfer; bcc is 0 where the
\* generation has no such register.
SpiRegs(base) ==
    IF is_sun6i_gen_spi
    THEN [ctl |-> base + SUN6I_SPI0_TCR, xch |-> SUN6I_TCR_XCH,
          fifo |-> base + SUN6I_SPI0_FIFO_STA, tx |-> base + SUN6I_SPI0_TXD,
          rx |-> base + SUN6I_SPI0_RXD, bc |-> base + SUN6I_SPI0_MBC,
          tc |-> base + SUN6I_SPI0_MTC, bcc |-> base + SUN6I_SPI0_BCC]
    ELSE [ctl |-> base + SUN4I_SPI0_CTL, xch |-> SUN4I_CTL_XCH,
          fifo |-> base + SUN4I_SPI0_FIFO_STA, tx |-> base + SUN4I_SPI0_TX,
          rx |-> base + SUN4I_SPI0_RX, bc |-> base + SUN4I_SPI0_BC,
          tc |-> base + SUN4I_SPI0_TC, bcc |-> 0]

\* One register access: writel, writeb, setbits (val is the bit number),
\* readl, readb (val is what was read).
Access(op, reg, val) == [op |-> op, reg |-> reg, val |-> val]

\* spi0_xfer: the base address, the generation's registers, the call of
\* sunxi_spi0_xfer.
Spi0Xfer_Enter ==
    /\ pc = "xfer"
    /\ xfer.pc \in {"idle", "ret"}
    /\ hist.xfers < MaxXfers
    /\ \E call \in XferCalls :
        /\ spi0_xfer(call.tx, call.rxlen)
        /\ xfer' = [pc |-> "bc", txbuf |-> call.tx, txlen |-> Len(call.tx),
                    rxbuf |-> <<>>, rxlen |-> call.rxlen, i |-> 0,
                    r |-> SpiRegs(spi0_base_address), spun |-> FALSE]
    /\ xtrace' = <<>>
    /\ hw' = [hw EXCEPT !.clocked = 0, !.wire = <<>>]
    /\ hist' = [hist EXCEPT !.xfers = @ + 1]
    /\ UNCHANGED <<cfgVars, blk, pc, loadVars, readVars, ctlVars, lastDelay, xlog,
                   extVars, retVars, ctl, creg, ctrace>>

\* Mutant of TotalBytes: the bytes to send are not counted.
TotalBytes_RxOnly(txlen, rxlen) == rxlen

\* sunxi_spi0_xfer: txlen + rxlen, the bytes of the burst.
TotalBytes(txlen, rxlen) == txlen + rxlen

\* sunxi_spi0_xfer: writel(txlen + rxlen, spi_bc_reg).
SunxiSpi0Xfer_WriteBc ==
    /\ xfer.pc = "bc"
    /\ LET total == TotalBytes(xfer.txlen, xfer.rxlen)
       IN /\ hw' = [hw EXCEPT !.bc = total]
          /\ xtrace' = Append(xtrace, Access("writel", xfer.r.bc, total))
    /\ xfer' = [xfer EXCEPT !.pc = "tc"]
    /\ UNCHANGED <<cfgVars, blk, pc, loadVars, readVars, ctlVars, busVars, extVars,
                   retVars, initVars>>

\* sunxi_spi0_xfer: where the for loops stand: in the body or behind it.
LoopPc(i, n, body, behind) == IF i < n THEN body ELSE behind

\* sunxi_spi0_xfer: writel(txlen, spi_tc_reg); if (spi_bcc_reg).
SunxiSpi0Xfer_WriteTc ==
    /\ xfer.pc = "tc"
    /\ hw' = [hw EXCEPT !.tc = xfer.txlen]
    /\ xtrace' = Append(xtrace, Access("writel", xfer.r.tc, xfer.txlen))
    /\ xfer' = [xfer EXCEPT !.pc = IF xfer.r.bcc # 0 THEN "bcc"
                                  ELSE LoopPc(0, xfer.txlen, "tx", "start")]
    /\ UNCHANGED <<cfgVars, blk, pc, loadVars, readVars, ctlVars, busVars, extVars,
                   retVars, initVars>>

\* sunxi_spi0_xfer: writel(txlen, spi_bcc_reg).
SunxiSpi0Xfer_WriteBcc ==
    /\ xfer.pc = "bcc"
    /\ hw' = [hw EXCEPT !.bcc = xfer.txlen]
    /\ xtrace' = Append(xtrace, Access("writel", xfer.r.bcc, xfer.txlen))
    /\ xfer' = [xfer EXCEPT !.pc = LoopPc(0, xfer.txlen, "tx", "start")]
    /\ UNCHANGED <<cfgVars, blk, pc, loadVars, readVars, ctlVars, busVars, extVars,
                   retVars, initVars>>

\* sunxi_spi0_xfer: writeb(*(txbuf++), spi_tx_reg), one iteration.
SunxiSpi0Xfer_WriteTx ==
    /\ xfer.pc = "tx"
    /\ LET byte == xfer.txbuf[xfer.i + 1]
       IN /\ hw' = [hw EXCEPT !.txfifo = Append(@, byte)]
          /\ xtrace' = Append(xtrace, Access("writeb", xfer.r.tx, byte))
    /\ xfer' = [xfer EXCEPT !.i = @ + 1,
                            !.pc = LoopPc(xfer.i + 1, xfer.txlen, "tx", "start")]
    /\ UNCHANGED <<cfgVars, blk, pc, loadVars, readVars, ctlVars, busVars, extVars,
                   retVars, initVars>>

\* sunxi_spi0_xfer: setbits_le32(spi_ctl_reg, spi_ctl_xch_bitmask).
SunxiSpi0Xfer_Start ==
    /\ xfer.pc = "start"
    /\ hw' = [hw EXCEPT !.xch = TRUE]
    /\ xtrace' = Append(xtrace, Access("setbits", xfer.r.ctl, xfer.r.xch))
    /\ xfer' = [xfer EXCEPT !.pc = "wait"]
    /\ UNCHANGED <<cfgVars, blk, pc, loadVars, readVars, ctlVars, busVars, extVars,
                   retVars, initVars>>

\* The controller clocks one byte: the head of the TX FIFO goes out while
\* bytes of the transfer counter are left, a dummy byte after them, and the
\* byte clocked in, here its position in the stream, enters the RX FIFO. The
\* start bit clears itself behind the last byte of the burst counter.
Hw_Clock ==
    /\ hw.xch
    /\ hw.clocked < hw.bc
    /\ hw.clocked < hw.tc => hw.txfifo # <<>>
    /\ hw' = [hw EXCEPT !.clocked = @ + 1,
                        !.txfifo = IF @ = <<>> THEN @ ELSE Tail(@),
                        !.wire = IF hw.txfifo = <<>> THEN @
                                 ELSE Append(@, Head(hw.txfifo)),
                        !.rxfifo = Append(@, hw.clocked + 1),
                        !.xch = hw.clocked + 1 < hw.bc]
    /\ UNCHANGED <<cfgVars, blk, pc, loadVars, readVars, ctlVars, busVars, extVars,
                   retVars, xfer, xtrace, initVars>>

\* The FIFO status register: the RX FIFO counter in the low bits, the TX
\* FIFO counter from bit 16 on.
FifoSta == Len(hw.rxfifo) + 65536 * Len(hw.txfifo)

\* Mutant of FifoReady: the status word is compared as it is read.
FifoReady_NoMask(sta, total) == ~(sta < total)

\* sunxi_spi0_xfer: the wait ends when (readl(spi_fifo_reg) & 0x7F) is not
\* below txlen + rxlen.
FifoReady(sta, total) == ~((sta % 128) < total)

\* sunxi_spi0_xfer: one readl of the FIFO status in the while loop. The
\* polls of one wait are one entry of xtrace.
SunxiSpi0Xfer_Poll ==
    /\ xfer.pc = "wait"
    /\ xtrace' = IF xtrace # <<>> /\ xtrace[Len(xtrace)].op = "readl" THEN xtrace
                 ELSE Append(xtrace, Access("readl", xfer.r.fifo, 0))
    /\ IF FifoReady(FifoSta, xfer.txlen + xfer.rxlen)
       THEN xfer' = [xfer EXCEPT !.i = 0,
                                 !.pc = LoopPc(0, xfer.txlen, "skip", "rx")]
       ELSE xfer' = [xfer EXCEPT !.spun = TRUE]
    /\ UNCHANGED <<cfgVars, blk, pc, loadVars, readVars, ctlVars, busVars, extVars,
                   retVars, hw, initVars>>

\* readb(spi_rx_reg): the head of the RX FIFO, 0 when there is none.
RxHead == IF hw.rxfifo = <<>> THEN 0 ELSE Head(hw.rxfifo)
RxPop == [hw EXCEPT !.rxfifo = IF @ = <<>> THEN @ ELSE Tail(@)]

\* sunxi_spi0_xfer: readb(spi_rx_reg) of the skip loop, one iteration.
SunxiSpi0Xfer_Skip ==
    /\ xfer.pc = "skip"
    /\ hw' = RxPop
    /\ xtrace' = Append(xtrace, Access("readb", xfer.r.rx, RxHead))
    /\ xfer' = [xfer EXCEPT !.i = @ + 1,
                            !.pc = LoopPc(xfer.i + 1, xfer.txlen, "skip", "rx")]
    /\ UNCHANGED <<cfgVars, blk, pc, loadVars, readVars, ctlVars, busVars, extVars,
                   retVars, initVars>>

\* sunxi_spi0_xfer: *rxbuf++ = readb(spi_rx_reg), one iteration.
SunxiSpi0Xfer_Read ==
    /\ xfer.pc = "rx"
    /\ xfer.rxlen > 0
    /\ hw' = RxPop
    /\ xtrace' = Append(xtrace, Access("readb", xfer.r.rx, RxHead))
    /\ xfer' = [xfer EXCEPT !.rxlen = @ - 1, !.rxbuf = Append(@, RxHead)]
    /\ UNCHANGED <<cfgVars, blk, pc, loadVars, readVars, ctlVars, busVars, extVars,
                   retVars, initVars>>

\* sunxi_spi0_xfer and spi0_xfer return. The load goes on as Spec tells;
\* here it makes another transfer or goes to the teardown it ends with.
SunxiSpi0Xfer_Return ==
    /\ xfer.pc = "rx"
    /\ xfer.rxlen = 0
    /\ xfer' = [xfer EXCEPT !.pc = "ret"]
    /\ \/ pc' = "deinit"
       \/ hist.xfers < MaxXfers /\ pc' = "xfer"
    /\ UNCHANGED <<cfgVars, blk, loadVars, readVars, ctlVars, busVars, extVars,
                   retVars, hw, xtrace, initVars>>

(***************************************************************************)
(* spi0_init and spi0_deinit, register access by register access           *)
(***************************************************************************)

\* CCM_BASE: 0x03001000, 0x02001000 or 0x01C20000.
CCM_BASE ==
    IF IS_ENABLED("SUN50I_GEN_H6") THEN 50335744
    ELSE IF IS_ENABLED("SUNXI_GEN_NCAT2") THEN 33558528
    ELSE 29491200

CCM_AHB_GATING0 == CCM_BASE + 96
CCM_H6_SPI_BGR_REG == CCM_BASE + 2412
CCM_SPI0_CLK ==
    IF IS_ENABLED("SUN50I_GEN_H6") \/ IS_ENABLED("SUNXI_GEN_NCAT2")
    THEN CCM_BASE + 2368
    ELSE CCM_BASE + 160
SUN6I_BUS_SOFT_RST_REG0 == CCM_BASE + 704

\* A register value is the set of the numbers of its bits that are 1: 0x1000,
\* 0x1001 and 0x100f.
SPI0_CLK_DIV_BY_2 == {12}
SPI0_CLK_DIV_BY_4 == {12, 0}
SPI0_CLK_DIV_BY_32 == {12, 3, 2, 1, 0}

\* One access of spi0_init or spi0_deinit: writel, setbits, clrbits or wait
\* (the loop on readl) on a register of the controller ("spi") or of the CCM
\* ("ccm"), val the bits written or tested; sunxi_gpio_set_cfgpin on pin
\* PC<reg> ("pio"), fn the pin function.
RegOp(op, dev, reg, val, fn) ==
    [op |-> op, dev |-> dev, reg |-> reg, val |-> val, fn |-> fn]

\* spi0_pinmux_setup: the pins it configures, in its order.
spi0_pinmux_setup(pin_function) ==
    LET PC(cond, n) ==
            IF cond THEN <<RegOp("set_cfgpin", "pio", n, {}, pin_function)>>
            ELSE <<>>
    IN PC(~IS_ENABLED("MACH_SUN8I_R528"), 0)
       \o PC(TRUE, 2)
       \o PC(~IS_ENABLED("SUN50I_GEN_H6") /\ ~IS_ENABLED("MACH_SUN8I_R528"), 1)
       \o PC(IS_ENABLED("MACH_SUN50I_H6") \/ IS_ENABLED("MACH_SUN8I_R528"), 5)
       \o PC(IS_ENABLED("MACH_SUN50I_H616") \/ IS_ENABLED("MACH_SUN8I_R528"), 4)
       \o (IF \/ IS_ENABLED("MACH_SUN4I")
              \/ IS_ENABLED("MACH_SUN7I")
              \/ IS_ENABLED("MACH_SUN8I_R40")
           THEN PC(TRUE, 23)
           ELSE PC(TRUE, 3))

\* Mutant of ResetPending: the soft reset is never found pending.
ResetPending_Never(v, mask) == FALSE

\* spi0_enable_clock: readl(base + SUN6I_SPI0_GCR) & SUN6I_CTL_SRST.
ResetPending(v, mask) == v \cap mask # {}

\* spi0_enable_clock: its register accesses, in its order.
spi0_enable_clock ==
    LET base == spi0_base_address
        H6orNCAT2 == IS_ENABLED("SUN50I_GEN_H6") \/ IS_ENABLED("SUNXI_GEN_NCAT2")
    IN (IF H6orNCAT2
        THEN <<RegOp("setbits", "ccm", CCM_H6_SPI_BGR_REG, {16, 0}, "")>>
        ELSE IF is_sun6i_gen_spi
        THEN <<RegOp("setbits", "ccm", SUN6I_BUS_SOFT_RST_REG0,
                     {AHB_RESET_SPI0_SHIFT}, "")>>
        ELSE <<>>)
       \o (IF ~H6orNCAT2
           THEN <<RegOp("setbits", "ccm", CCM_AHB_GATING0,
                        {AHB_GATE_OFFSET_SPI0}, "")>>
           ELSE <<>>)
       \o (IF IS_ENABLED("MACH_SUNIV")
           THEN <<RegOp("writel", "spi", base + SUN6I_SPI0_CCTL,
                        SPI0_CLK_DIV_BY_32, "")>>
           ELSE (IF ~IS_ENABLED("SUNXI_GEN_NCAT2")
                 THEN <<RegOp("writel", "spi",
                              base + (IF is_sun6i_gen_spi THEN SUN6I_SPI0_CCTL
                                      ELSE SUN4I_SPI0_CCTL),
                              SPI0_CLK_DIV_BY_4, "")>>
                 ELSE <<>>)
                \o <<RegOp("writel", "ccm", CCM_SPI0_CLK, {31}, "")>>)
       \o (IF is_sun6i_gen_spi
           THEN <<RegOp("setbits", "spi", base + SUN6I_SPI0_GCR,
                        {SUN6I_CTL_MASTER, SUN6I_CTL_ENABLE, SUN6I_CTL_SRST}, ""),
                  RegOp("wait", "spi", base + SUN6I_SPI0_GCR,
                        {SUN6I_CTL_SRST}, "")>>
                \o (IF IS_ENABLED("SUNXI_GEN_NCAT2")
                    THEN <<RegOp("setbits", "spi", base + SUN6I_SPI0_TCR,
                                 {SUN6I_TCR_SDM}, "")>>
                    ELSE <<>>)
           ELSE <<RegOp("setbits", "spi", base + SUN4I_SPI0_CTL,
                        {SUN4I_CTL_MASTER, SUN4I_CTL_ENABLE, SUN4I_CTL_TF_RST,
                         SUN4I_CTL_RF_RST}, "")>>)

\* spi0_disable_clock: its register accesses, in its order.
spi0_disable_clock ==
    LET base == spi0_base_address
        H6orNCAT2 == IS_ENABLED("SUN50I_GEN_H6") \/ IS_ENABLED("SUNXI_GEN_NCAT2")
    IN (IF is_sun6i_gen_spi
        THEN <<RegOp("clrbits", "spi", base + SUN6I_SPI0_GCR,
                     {SUN6I_CTL_MASTER, SUN6I_CTL_ENABLE}, "")>>
        ELSE <<RegOp("clrbits", "spi", base + SUN4I_SPI0_CTL,
                     {SUN4I_CTL_MASTER, SUN4I_CTL_ENABLE}, "")>>)
       \o (IF ~IS_ENABLED("MACH_SUNIV")
           THEN <<RegOp("writel", "ccm", CCM_SPI0_CLK, {}, "")>>
           ELSE <<>>)
       \o (IF ~H6orNCAT2
           THEN <<RegOp("clrbits", "ccm", CCM_AHB_GATING0,
                        {AHB_GATE_OFFSET_SPI0}, "")>>
           ELSE <<>>)
       \o (IF H6orNCAT2
           THEN <<RegOp("clrbits", "ccm", CCM_H6_SPI_BGR_REG, {16, 0}, "")>>
           ELSE IF is_sun6i_gen_spi
           THEN <<RegOp("clrbits", "ccm", SUN6I_BUS_SOFT_RST_REG0,
                        {AHB_RESET_SPI0_SHIFT}, "")>>
           ELSE <<>>)

\* spi0_init: pin_function.
InitPinFunction ==
    IF IS_ENABLED("MACH_SUN50I") \/ IS_ENABLED("SUN50I_GEN_H6")
    THEN "SUN50I_GPC_SPI0"
    ELSE IF IS_ENABLED("MACH_SUNIV") \/ IS_ENABLED("MACH_SUN8I_R528")
    THEN "SUNIV_GPC_SPI0"
    ELSE "SUNXI_GPC_SPI0"

\* Mutant of DeinitPinFunction: the pins are made inputs on every SoC.
DeinitPinFunction_Input == "SUNXI_GPIO_INPUT"

\* spi0_deinit: pin_function.
DeinitPinFunction ==
    IF is_sun6i_gen_spi THEN "SUNXI_GPIO_DISABLE" ELSE "SUNXI_GPIO_INPUT"

\* spi0_init: spi0_pinmux_setup(pin_function); spi0_enable_clock().
spi0_init == spi0_pinmux_setup(InitPinFunction) \o spi0_enable_clock

\* Mutant of spi0_deinit: the pins are released before the controller is
\* disabled.
spi0_deinit_PinsFirst ==
    spi0_pinmux_setup(DeinitPinFunction) \o spi0_disable_clock

\* spi0_deinit: spi0_disable_clock(); spi0_pinmux_setup(pin_function).
spi0_deinit == spi0_disable_clock \o spi0_pinmux_setup(DeinitPinFunction)

\* Mutant of setbits_le32: the bits of the mask are flipped.
setbits_le32_Toggle(v, mask) == (v \ mask) \cup (mask \ v)

\* setbits_le32 and clrbits_le32: read, modify, write.
setbits_le32(v, mask) == v \cup mask
clrbits_le32(v, mask) == v \ mask

\* The register that holds the enable and master bits: the global control
\* register of a sun6i controller, the control register of a sun4i one; and
\* its bits that request a reset and that the controller clears when the
\* reset is through.
ControlReg ==
    spi0_base_address + (IF is_sun6i_gen_spi THEN SUN6I_SPI0_GCR
                         ELSE SUN4I_SPI0_CTL)
ResetBits ==
    IF is_sun6i_gen_spi THEN {SUN6I_CTL_SRST}
    ELSE {SUN4I_CTL_TF_RST, SUN4I_CTL_RF_RST}

\* The registers and the pins spi0_init and spi0_deinit may touch.
Registers ==
    {ControlReg, spi0_base_address + SUN6I_SPI0_TCR,
     spi0_base_address + SUN4I_SPI0_CCTL, spi0_base_address + SUN6I_SPI0_CCTL,
     CCM_AHB_GATING0, CCM_H6_SPI_BGR_REG, CCM_SPI0_CLK, SUN6I_BUS_SOFT_RST_REG0}
Pins == {0, 1, 2, 3, 4, 5, 23}

\* What the code may find when spi0_init or spi0_deinit is called first:
\* the controller off with its clock register at 0, or the controller on
\* with another bit of its control register set and the clock running from
\* another source.
CtlPriors ==
    { [control |-> {}, clk |-> {}],
      [control |-> {0, 1, 7}, clk |-> {24, 31}] }
PriorRegs(p) ==
    [mem |-> [r \in Registers |-> IF r = ControlReg THEN p.control
                                  ELSE IF r = CCM_SPI0_CLK THEN p.clk
                                  ELSE {}],
     pins |-> [n \in Pins |-> "unset"]]

\* The effect of one access on the registers and pins.
Exec(o) ==
    CASE o.op = "set_cfgpin" -> [creg EXCEPT !.pins[o.reg] = o.fn]
      [] o.op = "writel" -> [creg EXCEPT !.mem[o.reg] = o.val]
      [] o.op = "setbits" -> [creg EXCEPT !.mem[o.reg] = setbits_le32(@, o.val)]
      [] o.op = "clrbits" -> [creg EXCEPT !.mem[o.reg] = clrbits_le32(@, o.val)]

\* spl_spi_load_image: spi0_init() is called.
Spi0Init_Enter ==
    /\ ctl.fn = "none"
    /\ \/ pc = "init"
       \/ pc = "ctl" /\ hist.calls < MaxCtlCalls
    /\ ctl' = [fn |-> "init", ops |-> spi0_init, i |-> 1, spun |-> FALSE]
    /\ ctrace' = <<>>
    /\ hist' = [hist EXCEPT !.entry = creg]
    /\ UNCHANGED <<cfgVars, blk, pc, loadVars, readVars, ctlVars, busVars, extVars,
                   retVars, xfer, hw, xtrace, creg>>

\* spl_spi_load_image: spi0_deinit() is called.
Spi0Deinit_Enter ==
    /\ ctl.fn = "none"
    /\ \/ pc = "deinit"
       \/ pc = "ctl" /\ hist.calls < MaxCtlCalls
    /\ ctl' = [fn |-> "deinit", ops |-> spi0_deinit, i |-> 1, spun |-> FALSE]
    /\ ctrace' = <<>>
    /\ hist' = [hist EXCEPT !.entry = creg]
    /\ UNCHANGED <<cfgVars, blk, pc, loadVars, readVars, ctlVars, busVars, extVars,
                   retVars, xfer, hw, xtrace, creg>>

\* spi0_pinmux_setup, spi0_enable_clock, spi0_disable_clock: the next
\* sunxi_gpio_set_cfgpin, writel, setbits_le32 or clrbits_le32.
Spi0Ctl_Access ==
    /\ ctl.fn # "none"
    /\ ctl.i <= Len(ctl.ops)
    /\ ctl.ops[ctl.i].op # "wait"
    /\ creg' = Exec(ctl.ops[ctl.i])
    /\ ctrace' = Append(ctrace, ctl.ops[ctl.i])
    /\ ctl' = [ctl EXCEPT !.i = @ + 1]
    /\ UNCHANGED <<cfgVars, blk, pc, loadVars, readVars, ctlVars, busVars, extVars,
                   retVars, xfer, hw, xtrace, hist>>

\* spi0_enable_clock: one readl of while (readl(base + SUN6I_SPI0_GCR) &
\* SUN6I_CTL_SRST). The reads of one wait are one entry of ctrace.
Spi0EnableClock_Wait ==
    /\ ctl.fn # "none"
    /\ ctl.i <= Len(ctl.ops)
    /\ ctl.ops[ctl.i].op = "wait"
    /\ LET o == ctl.ops[ctl.i]
       IN /\ ctrace' = IF ctl.spun THEN ctrace
                       ELSE Append(ctrace, [o EXCEPT !.op = "readl"])
          /\ ctl' = IF ResetPending(creg.mem[o.reg], o.val)
                    THEN [ctl EXCEPT !.spun = TRUE]
                    ELSE [ctl EXCEPT !.i = @ + 1]
    /\ UNCHANGED <<cfgVars, blk, pc, loadVars, readVars, ctlVars, busVars, extVars,
                   retVars, xfer, hw, xtrace, creg, hist>>

\* The controller has done the reset asked of it and clears the request.
Hw_ResetDone ==
    /\ creg.mem[ControlReg] \cap ResetBits # {}
    /\ creg' = [creg EXCEPT !.mem[ControlReg] = @ \ ResetBits]
    /\ UNCHANGED <<cfgVars, blk, pc, loadVars, readVars, ctlVars, busVars, extVars,
                   retVars, xfer, hw, xtrace, ctl, ctrace, hist>>

\* What a call that returns leaves in the history.
Returning(fn) ==
    [hist EXCEPT !.calls = @ + 1, !.prevFn = hist.lastFn, !.lastFn = fn,
                 !.first[fn] = IF @ = <<>> THEN ctrace ELSE @]

\* spi0_init returns; spl_spi_load_image goes on to its transfers.
Spi0Init_Return ==
    /\ ctl.fn = "init"
    /\ ctl.i > Len(ctl.ops)
    /\ ctl' = [ctl EXCEPT !.fn = "none"]
    /\ hist' = Returning("init")
    /\ spi_on' = TRUE
    /\ inits' = inits + 1
    /\ pc' = IF pc = "init" THEN "xfer" ELSE pc
    /\ UNCHANGED <<cfgVars, blk, loadVars, readVars, deinits, resets, busVars,
                   extVars, retVars, xfer, hw, xtrace, creg, ctrace>>

\* spi0_deinit returns; spl_spi_load_image returns ret.
Spi0Deinit_Return ==
    /\ ctl.fn = "deinit"
    /\ ctl.i > Len(ctl.ops)
    /\ ctl' = [ctl EXCEPT !.fn = "none"]
    /\ hist' = Returning("deinit")
    /\ spi_on' = FALSE
    /\ deinits' = deinits + 1
    /\ pc' = IF pc = "deinit" THEN "done" ELSE pc
    /\ UNCHANGED <<cfgVars, blk, loadVars, readVars, inits, resets, busVars,
                   extVars, retVars, xfer, hw, xtrace, creg, ctrace>>

(***************************************************************************)
(* The SPI NAND block interface                                            *)
(***************************************************************************)

\* block * CONFIG_SPL_SPINAND_BLOCK_SIZE + offset has a value, the product
\* and the sum being computed in int.
InIntRange(block, bs, offset) == block <= (INT_MAX - offset) \div bs

\* spinand_spl_read_block: byte_offset.
ByteOffset(block, bs, offset) == (block * bs) + offset

\* spinand_init: spi0_init(), then spi0_nand_reset() with its Device RESET
\* transfer and udelay(10).
SpinandInit ==
    /\ pc = "blk_idle"
    /\ spi_on' = TRUE
    /\ inits' = inits + 1
    /\ lastXfer' = [tx |-> <<255>>, rxlen |-> 0]
    /\ lastDelay' = 10
    /\ resets' = resets + 1
    /\ pc' = "blk_ready"
    /\ UNCHANGED <<cfgVars, blk, regVars, retVars, loadVars, readVars, deinits,
                   xferOff, xlog, extVars>>

\* spinand_spl_read_block: byte_offset is computed and spi_load_read_nand is
\* called with it, len and dst.
SpinandSplReadBlock_Call ==
    /\ pc = "blk_ready"
    /\ \E block \in Blocks, offset \in BlockOffsets, len \in BlockLens,
          dst \in BlockBuffers :
        /\ InIntRange(block, blk.bs, offset)
        /\ blk' = [blk EXCEPT !.block = block, !.offset = offset, !.len = len,
                              !.dst = dst, !.ret = 0, !.state = "called",
                              !.entry = ctlVars]
        /\ CallRead("block", ByteOffset(block, blk.bs, offset), len, dst)
    /\ UNCHANGED <<cfgVars, regVars, retVars, loadVars, ctlVars, lastXfer,
                   lastDelay, xferOff, reads, parseCalls, fitCalls, fitReads,
                   coreTimedOut>>

\* Mutant of SpinandSplReadBlock_Return: the result of the read is passed on.
SpinandSplReadBlock_Return_ReadResult ==
    /\ pc = "read_ret"
    /\ rd.site = "block"
    /\ blk' = [blk EXCEPT !.ret = rv, !.state = "returned"]
    /\ pc' = "blk_ready"
    /\ UNCHANGED <<cfgVars, regVars, retVars, loadVars, readVars, ctlVars,
                   busVars, extVars>>

\* spinand_spl_read_block: the result of spi_load_read_nand is dropped;
\* return 0.
SpinandSplReadBlock_Return ==
    /\ pc = "read_ret"
    /\ rd.site = "block"
    /\ blk' = [blk EXCEPT !.ret = 0, !.state = "returned"]
    /\ pc' = "blk_ready"
    /\ UNCHANGED <<cfgVars, regVars, retVars, loadVars, readVars, ctlVars,
                   busVars, extVars>>

\* spinand_deselect: spi0_deinit().
SpinandDeselect ==
    /\ pc = "blk_ready"
    /\ spi_on' = FALSE
    /\ deinits' = deinits + 1
    /\ pc' = "blk_done"
    /\ UNCHANGED <<cfgVars, blk, regVars, retVars, loadVars, readVars, inits,
                   resets, busVars, extVars>>

(***************************************************************************)
(* Claims                                                                  *)
(***************************************************************************)

Returned == pc = "done"
HeaderWasRead == header # NoHeader
HeaderRead ==
    [site |-> "hdr", offset |-> load_offset, count |-> 64, buf |-> CONFIG_TEXT_BASE]
IsFdt(h) == image_get_magic(h) = <<53261, 65261>>
IsLegacy(h) == image_get_magic(h) = <<9989, 6486>>

\* C1: every call of spl_spi_load_image that returns has run spi0_deinit
\* exactly once, on every path (success, failed header read, bad image,
\* page-switch timeout, FIT loader or parser failure, failed payload read);
\* the teardown comes after the last bus transfer and nothing runs it before
\* the call is about to return.
C1_TeardownOnce ==
    /\ deinits \in {0, 1}
    /\ Returned <=> deinits = 1
    /\ deinits = 1 => ~spi_on
    /\ ~xferOff

\* C1 witness: a load that failed on a page-switch timeout has returned, torn
\* down.
C1_Witness ==
    /\ Returned
    /\ coreTimedOut
    /\ ret # 0
    /\ deinits = 1
    /\ lastXfer.tx = <<15, 192>>

\* C2 as stated: a header with the FDT magic always goes to the FIT loader;
\* the legacy parser is not called and the core reads no payload.
C2_Original ==
    (HeaderWasRead /\ IsFdt(header)) =>
        /\ fitCalls = 1
        /\ parseCalls = 0
        /\ reads = <<HeaderRead>>

\* C2 amended: in a build with CONFIG_SPL_LOAD_FIT a header with the FDT
\* magic always goes to the FIT loader, whatever its other bytes, the boot
\* device and allow_raw are; the legacy parser is not called and the core
\* reads no payload. In a build without CONFIG_SPL_LOAD_FIT the FIT loader is
\* never called: such a header is rejected with -EINVAL when allow_raw is
\* false and handed to the legacy parser when allow_raw is true.
C2_FitRouted ==
    /\ (HeaderWasRead /\ IsFdt(header) /\ CONFIG_SPL_LOAD_FIT) =>
        /\ fitCalls = 1
        /\ parseCalls = 0
        /\ reads = <<HeaderRead>>
        /\ rd.site = "fit" \/ pc \in {"fit", "fit_ret", "deinit", "done"}
    /\ ~CONFIG_SPL_LOAD_FIT => fitCalls = 0
    /\ (HeaderWasRead /\ IsFdt(header) /\ ~CONFIG_SPL_LOAD_FIT) =>
        /\ allow_raw => parseCalls = 1
        /\ ~allow_raw => (parseCalls = 0 /\ ret = -EINVAL)

\* C2 witness: the FIT loader runs on an FDT header read from SPI NAND, where
\* allow_raw is false, with the other header bytes set.
C2_Witness ==
    /\ pc = "fit"
    /\ IsFdt(header)
    /\ header.rest = 1
    /\ boot_device = "SPINAND"
    /\ ~allow_raw
    /\ fitCalls = 1

\* C3 as stated: a legacy header read while allow_raw is false fails the
\* load with -EINVAL, without the parser and without a payload read.
C3_Original ==
    (HeaderWasRead /\ IsLegacy(header) /\ ~allow_raw) =>
        /\ parseCalls = 0
        /\ reads = <<HeaderRead>>
        /\ Returned => ret = -EINVAL

\* C3 amended: a legacy header read while allow_raw is false is handed to
\* the legacy header parser, once, like one read while allow_raw is true.
\* The load then returns the parser's error without a payload read, or
\* reads the payload and returns 0, or -EINVAL when that read returned 0.
C3_LegacyWithoutRaw ==
    (HeaderWasRead /\ IsLegacy(header) /\ ~allow_raw) =>
        /\ parseCalls = 1
        /\ fitCalls = 0
        /\ (Returned /\ Len(reads) = 1) => ret \in ParserErrors
        /\ (Returned /\ Len(reads) # 1) =>
            /\ Len(reads) = 2
            /\ rd.site = "payload"
            /\ ret = IF rv = 0 THEN -EINVAL ELSE 0

\* C3 witness: a legacy image was loaded from SPI NAND with success.
C3_Witness ==
    /\ Returned
    /\ IsLegacy(header)
    /\ ~allow_raw
    /\ boot_device = "SPINAND"
    /\ spl_image.size = 4096
    /\ ret = 0

\* C4 as stated: a header with neither magic fails the load with -EINVAL for
\* both values of allow_raw, without the parser and without a payload read.
C4_Original ==
    (HeaderWasRead /\ ~IsFdt(header) /\ ~IsLegacy(header)) =>
        /\ parseCalls = 0
        /\ reads = <<HeaderRead>>
        /\ Returned => ret = -EINVAL

\* C4 amended: a header with neither magic fails the load with -EINVAL,
\* without the parser and without a payload read, when allow_raw is false
\* (SPI NAND). When allow_raw is true (SPI NOR) it is handed to the legacy
\* header parser, once, and the FIT loader is not called.
C4_NoMagic ==
    (HeaderWasRead /\ ~IsFdt(header) /\ ~IsLegacy(header)) =>
        /\ fitCalls = 0
        /\ ~allow_raw =>
            /\ parseCalls = 0
            /\ reads = <<HeaderRead>>
            /\ pc \in {"deinit", "done"}
            /\ ret = -EINVAL
        /\ allow_raw => parseCalls = 1

\* C4 witness: a header without a magic, read from SPI NAND, failed the load.
C4_Witness ==
    /\ Returned
    /\ header.magic4 = <<0, 0, 0, 0>>
    /\ ~allow_raw
    /\ parseCalls = 0
    /\ ret = -EINVAL

\* What C5 says of a legacy header read while allow_raw is true, up to the
\* result of the payload read.
C5_LegacyRouted ==
    /\ parseCalls = 1
    /\ fitCalls = 0
    /\ Len(reads) \in {1, 2}
    /\ reads[1] = HeaderRead
    /\ Len(reads) = 2 =>
        reads[2] = [site |-> "payload", offset |-> load_offset,
                    count |-> spl_image.size, buf |-> spl_image.load_addr]
    /\ (Returned /\ Len(reads) = 1) => ret \in ParserErrors
    /\ (Returned /\ Len(reads) = 2) => rd.site = "payload"

\* C5 as stated: the payload read is the second and last read call, and the
\* load returns success when it returned the requested count.
C5_Original ==
    (HeaderWasRead /\ IsLegacy(header) /\ allow_raw) =>
        /\ C5_LegacyRouted
        /\ (Returned /\ Len(reads) = 2 /\ rv = rd.count) => ret = 0

\* C5 amended: a legacy header read while allow_raw is true goes to the
\* legacy load: the parser is called once; when it succeeds exactly one more
\* read call is issued, for the declared size, from the load offset, into
\* the declared load address, so that the load has two read calls (64-byte
\* header, payload); when that read returns the requested count and the
\* count is not 0, the load returns success. A declared size of 0 makes the
\* read return 0 and the load fail with -EINVAL.
C5_LegacyLoad ==
    (HeaderWasRead /\ IsLegacy(header) /\ allow_raw) =>
        /\ C5_LegacyRouted
        /\ (Returned /\ Len(reads) = 2 /\ rv = rd.count /\ rd.count # 0) => ret = 0
        /\ (Returned /\ Len(reads) = 2 /\ rd.count = 0) => ret = -EINVAL

\* C5 witness: a legacy header declaring 4096 bytes for address 0x1000 was
\* loaded from SPI NOR with two read calls.
C5_Witness ==
    /\ Returned
    /\ IsLegacy(header)
    /\ allow_raw
    /\ spl_image = [size |-> 4096, load_addr |-> 4096]
    /\ Len(reads) = 2
    /\ rv = 4096
    /\ ret = 0

\* C6: after the page-switch command the status is polled at most 100
\* times, each poll after a delay of one microsecond, and bit 0 of the
\* status byte alone decides: a source that is busy for N < 100 polls and
\* then ready makes the switch succeed after exactly N + 1 polls (also for
\* N = 99); one that is busy for 100 polls makes it return -ETIMEDOUT after
\* exactly 100 polls, without a 101st.
C6_RetryBound ==
    /\ sw.polls <= 100
    /\ sw.delay = sw.polls
    /\ pc = "switch_poll" => sw.busy = sw.polls
    /\ (pc = "switch_ret" /\ sw.ret = 0) =>
        /\ sw.busy < 100
        /\ sw.polls = sw.busy + 1
    /\ (pc = "switch_ret" /\ sw.ret # 0) =>
        /\ sw.ret = -110
        /\ sw.busy = 100
        /\ sw.polls = 100

\* C6 witness: the chip was busy for 99 polls and ready at the 100th, the
\* page switch succeeded.
C6_Witness ==
    /\ pc = "switch_ret"
    /\ sw.ret = 0
    /\ sw.busy = 99
    /\ sw.polls = 100

Last(q) == q[Len(q)]

\* C7: a page switch that times out ends the NAND read call at once: the
\* page-switch command of the failing page is the call's last transfer
\* besides the status polls (no data read of that page, nothing for a later
\* page), the call returns 0, which is less than a non-zero request, and a
\* load whose own read call timed out goes to its end and fails.
C7_TimeoutAborts ==
    /\ timedOut =>
        /\ pc \in {"read_ret", "fit", "fit_ret", "deinit", "done"}
        /\ rv = 0
        /\ rd.count # 0 => rv < rd.count
        /\ xlog # <<>>
        /\ Last(xlog).kind = "switch"
        /\ Last(xlog).addr = nand.sector \div pagesize
        /\ lastXfer.tx = <<15, 192>>
    /\ coreTimedOut =>
        /\ timedOut
        /\ pc \in {"read_ret", "deinit", "done"}
        /\ pc \in {"deinit", "done"} => ret # 0

\* C7 witness: the payload read of a load timed out at a later page, after
\* an earlier page was read, and the load failed.
C7_Witness ==
    /\ Returned
    /\ timedOut
    /\ rd.site = "payload"
    /\ \E i \in 1..Len(xlog) : xlog[i].kind = "data"
    /\ rv = 0
    /\ ret # 0

\* C8 as stated: a load whose own read call hit a page-switch timeout
\* returns the timeout status.
C8_Original ==
    (Returned /\ coreTimedOut) => ret = -110

\* C8 amended: a load whose own read call (of the header or of the legacy
\* payload) hit a page-switch timeout returns -EINVAL, the status of every
\* failed read; -ETIMEDOUT is only what spi0_nand_switch_page returns to
\* the NAND read function, which turns it into a read count of 0.
C8_TimeoutIsEinval ==
    /\ (Returned /\ coreTimedOut) => ret = -22
    /\ sw.ret = -110 => pc = "switch_ret"
    /\ timedOut => rv = 0

\* C8 witness: the header read timed out and the load returned.
C8_Witness ==
    /\ Returned
    /\ coreTimedOut
    /\ rd.site = "hdr"
    /\ ret = -22

\* The column a data-read transfer sends: the two address bytes of its header.
Column(x) == x.hdr[2] * 256 + x.hdr[3]

\* C9: every data-read transfer of the NAND read function has column +
\* length <= page size, the column taken from the transfer's command header.
C9_WithinPage ==
    load_read = "nand" =>
        \A i \in 1..Len(xlog) :
            xlog[i].kind = "data" =>
                /\ xlog[i].len >= 1
                /\ Column(xlog[i]) + xlog[i].len <= pagesize

\* C9 witness: a NAND read whose request crosses a page boundary returned,
\* one of its transfers ending on the last byte of the first page.
C9_Witness ==
    /\ pc = "read_ret"
    /\ load_read = "nand"
    /\ rv = rd.count
    /\ (rd.sector % pagesize) + rd.count > pagesize
    /\ \E i \in 1..Len(xlog) :
        /\ xlog[i].kind = "data"
        /\ Column(xlog[i]) + xlog[i].len = pagesize

RECURSIVE SumLen(_, _)
\* The bytes of the first k transfers of a log.
SumLen(log, k) == IF k = 0 THEN 0 ELSE SumLen(log, k - 1) + log[k].len

\* C10: a NOR read of count bytes at sector is made of data transfers whose
\* sizes sum to count, all of 60 bytes but the last, which has 1 to 60; the
\* address of each is sector plus the bytes of the earlier ones, strictly
\* increasing, the destination advances alike, and the call returns count.
C10_NorChunks ==
    load_read = "nor" =>
        /\ \A i \in 1..Len(xlog) :
            /\ xlog[i].kind = "data"
            /\ xlog[i].len \in 1..60
            /\ i < Len(xlog) => xlog[i].len = 60
            /\ xlog[i].addr = rd.sector + SumLen(xlog, i - 1)
            /\ xlog[i].dst = rd.buf + SumLen(xlog, i - 1)
            /\ i > 1 => xlog[i].addr > xlog[i - 1].addr
        /\ SumLen(xlog, Len(xlog)) + rdd.len = rd.count
        /\ pc = "read_ret" =>
            /\ SumLen(xlog, Len(xlog)) = rd.count
            /\ rv = rd.count

\* C10 witness: a NOR read of 200 bytes returned after transfers of 60, 60,
\* 60 and 20 bytes.
C10_Witness ==
    /\ pc = "read_ret"
    /\ load_read = "nor"
    /\ rd.count = 200
    /\ Len(xlog) = 4
    /\ xlog[4].len = 20
    /\ rv = 200

\* The page-switch transfers of a log, in order.
SwitchesOf(log) == SelectSeq(log, LAMBDA e : e.kind = "switch")

\* The page a transfer of a log belongs to: that of the last page switch up
\* to it.
PageAt(log, i) ==
    LET j == CHOOSE j \in 1..i :
                 /\ log[j].kind = "switch"
                 /\ \A k \in (j + 1)..i : log[k].kind # "switch"
    IN log[j].addr

RECURSIVE PageBytes(_, _, _)
\* The data bytes the first k transfers of a log read from page p.
PageBytes(log, k, p) ==
    IF k = 0 THEN 0
    ELSE PageBytes(log, k - 1, p) +
         (IF log[k].kind = "data" /\ PageAt(log, k) = p THEN log[k].len ELSE 0)

\* C11: a NAND read of len > 0 bytes at addr that succeeds has sent the
\* page-switch command for exactly the pages addr / P .. (addr + len - 1) / P,
\* once each, ascending; no data of a page is read while its switch is in
\* progress, every data transfer comes behind the switch of its page; the
\* data of the first page starts at column addr % P, that of a later page at
\* column 0, and goes on without a gap; page p gives min(remaining, P -
\* column) bytes; the bytes sum to len and the call returns len.
C11_NandPages ==
    load_read = "nand" =>
        /\ pc \in {"switch_poll", "switch_ret"} =>
            /\ xlog # <<>>
            /\ Last(xlog).kind = "switch"
            /\ Last(xlog).addr = nand.sector \div pagesize
        /\ (pc = "read_ret" /\ ~timedOut /\ rd.count > 0) =>
            LET first == rd.sector \div pagesize
                last == (rd.sector + rd.count - 1) \div pagesize
                pages == SwitchesOf(xlog)
                col(p) == IF p = first THEN rd.sector % pagesize ELSE 0
                start(p) == IF p = first THEN rd.sector ELSE p * pagesize
                n == Len(xlog)
            IN /\ Len(pages) = last - first + 1
               /\ \A k \in 1..Len(pages) :
                    /\ pages[k].addr = first + k - 1
                    /\ pages[k].hdr = <<19, (pages[k].addr \div 65536) % 256,
                                        (pages[k].addr \div 256) % 256,
                                        pages[k].addr % 256>>
               /\ xlog[1].kind = "switch"
               /\ xlog[n].kind = "data"
               /\ \A i \in 1..n :
                    xlog[i].kind = "data" =>
                        Column(xlog[i]) = col(PageAt(xlog, i))
                                          + PageBytes(xlog, i - 1, PageAt(xlog, i))
               /\ \A p \in first..last :
                    PageBytes(xlog, n, p) =
                        IF rd.sector + rd.count - start(p) < pagesize - col(p)
                        THEN rd.sector + rd.count - start(p)
                        ELSE pagesize - col(p)
               /\ SumLen(xlog, n) = rd.count
               /\ rv = rd.count

\* C11 witness: 200 bytes at 2000 with 2048-byte pages were read as page 0
\* from column 2000 (48 bytes), then page 1 from column 0 (60, 60 and 32).
C11_Witness ==
    /\ pc = "read_ret"
    /\ load_read = "nand"
    /\ pagesize = 2048
    /\ rd.sector = 2000
    /\ rd.count = 200
    /\ rv = 200
    /\ Len(xlog) = 6
    /\ xlog[1].addr = 0
    /\ xlog[2] = [kind |-> "data", hdr |-> <<3, 7, 208, 0>>, len |-> 48,
                  addr |-> 2000, dst |-> 1140850688]
    /\ xlog[3].kind = "switch"
    /\ xlog[3].addr = 1
    /\ Column(xlog[4]) = 0
    /\ PageBytes(xlog, 6, 1) = 152

\* C14: the first read call of a load asks for 64 bytes at the load offset
\* into the header buffer; until it has returned the header is not looked at
\* (no magic tested, neither the parser nor the FIT loader called, no further
\* read call); when it returns 0 the load fails with -EINVAL, neither the
\* FIT loader nor the parser is called and no payload is read.
C14_HeaderFirst ==
    /\ pc \in {"idle", "nand_reset", "try_load"} => (rd = NoRd /\ reads = <<>>)
    /\ rd # NoRd =>
        /\ reads # <<>>
        /\ reads[1] = [site |-> "hdr", offset |-> load_offset, count |-> 64,
                       buf |-> 1241513984]
    /\ (rd.site = "hdr" /\ pc \in {"read_data", "nand_loop", "switch_poll",
                                   "switch_ret", "read_ret"}) =>
        /\ header = NoHeader
        /\ parseCalls = 0
        /\ fitCalls = 0
        /\ Len(reads) = 1
        /\ rd = [site |-> "hdr", sector |-> load_offset, count |-> 64,
                 buf |-> 1241513984]
    /\ (rd.site = "hdr" /\ pc \in {"deinit", "done"} /\ rv = 0) =>
        /\ ret = -22
        /\ header = NoHeader
        /\ parseCalls = 0
        /\ fitCalls = 0
        /\ Len(reads) = 1

\* C14 witness: the header read returned 0 and the load has failed without
\* the header having been looked at.
C14_Witness ==
    /\ Returned
    /\ rd.site = "hdr"
    /\ rv = 0
    /\ header = NoHeader
    /\ parseCalls + fitCalls = 0
    /\ ret = -22

\* C15: the load offset is the greater of sunxi_get_spl_size() and
\* CONFIG_SYS_SPI_U_BOOT_OFFS, so never below the SPL's own size; the header
\* read, the FIT loader and the payload read are all given this offset.
C15_LoadOffset ==
    pc # "idle" =>
        /\ load_offset = IF spl_size > 32768 THEN spl_size ELSE 32768
        /\ load_offset >= spl_size
        /\ \A i \in 1..Len(reads) :
            /\ reads[i].offset = load_offset
            /\ reads[i].offset >= spl_size
        /\ (rd.site \in {"hdr", "payload"}) => rd.sector = load_offset
        /\ fitCalls > 0 => fitCall.offset = load_offset

\* C15 witness: an SPL of 34768 bytes, above the configured 32768, loaded a
\* legacy image: header and payload were both read at 34768.
C15_Witness ==
    /\ Returned
    /\ spl_size = 34768
    /\ Len(reads) = 2
    /\ reads[1].offset = 34768
    /\ reads[2].offset = 34768
    /\ ret = 0

\* C16: spl_load_simple_fit is called at most once in a load, with the read
\* function of the boot device, the load offset and the header buffer, and a
\* load that called it returns what it returned, zero or not.
C16_FitStatus ==
    /\ fitCalls \in {0, 1}
    /\ fitCalls = 1 =>
        /\ fitCall = [read |-> IF boot_device = "SPINAND" THEN "nand" ELSE "nor",
                      offset |-> load_offset, header |-> 1241513984]
        /\ fitCall.read = load_read
        /\ pc \in {"deinit", "done"} => ret = fitRet
    /\ fitCalls = 0 => fitCall = NoFitCall

\* C16 witness: the FIT loader read twice from SPI NAND and returned 1, which
\* the load returned.
C16_Witness ==
    /\ Returned
    /\ fitCalls = 1
    /\ fitCall.read = "nand"
    /\ fitReads = 2
    /\ fitRet = 1
    /\ ret = 1

\* C17: a load whose payload read returned less than the declared size
\* returns -EINVAL, and a load that read a payload returns 0 only when that
\* read returned exactly the count it was asked for.
C17_ShortPayload ==
    (rd.site = "payload" /\ pc \in {"deinit", "done"}) =>
        /\ rd.count = spl_image.size
        /\ rv < rd.count => ret = -22
        /\ ret = 0 => rv = rd.count
        /\ ret \in {0, -22}

\* C17 witness: the payload read of 4096 bytes failed at a later page, after
\* data of an earlier page was read, and the load returned -EINVAL.
C17_Witness ==
    /\ Returned
    /\ rd.site = "payload"
    /\ rd.count = 4096
    /\ Len(xlog) > 2
    /\ rv < 4096
    /\ ret = -22

\* C18: when spl_parse_image_header returns an error the load returns that
\* very error, reads no payload and is torn down like any other.
C18_ParserError ==
    parseRet # 0 =>
        /\ parseCalls = 1
        /\ pc \in {"deinit", "done"}
        /\ ret = parseRet
        /\ Len(reads) = 1
        /\ rd.site = "hdr"
        /\ fitCalls = 0
        /\ Returned => (deinits = 1 /\ ~spi_on)

\* C18 witness: the parser failed with -93, the load returned -93, torn down.
C18_Witness ==
    /\ Returned
    /\ parseRet = -93
    /\ ret = -93
    /\ deinits = 1

\* C19: on SPI NAND the Device RESET command (ffh) is sent once in a load: it
\* is the first transfer, sent with the controller initialised, 10
\* microseconds pass behind it, and no page switch or data read comes before
\* it; on SPI NOR it is never sent.
C19_NandReset ==
    /\ resets \in {0, 1}
    /\ boot_device = "SPI" =>
        /\ resets = 0
        /\ lastXfer = NoXfer \/ lastXfer.tx[1] = 3
    /\ boot_device = "SPINAND" =>
        /\ resets = 0 <=> pc = "nand_reset"
        /\ resets = 0 =>
            /\ spi_on
            /\ inits = 1
            /\ lastXfer = NoXfer
            /\ xlog = <<>>
            /\ reads = <<>>
        /\ pc = "try_load" =>
            /\ lastXfer = [tx |-> <<255>>, rxlen |-> 0]
            /\ lastDelay = 10
        /\ lastXfer.tx = <<255>> => (xlog = <<>> /\ Len(reads) <= 1)

\* C19 witness: the NAND chip was reset and the header read is about to
\* start.
C19_Witness ==
    /\ pc = "try_load"
    /\ boot_device = "SPINAND"
    /\ resets = 1
    /\ lastXfer.tx = <<255>>
    /\ lastDelay = 10

\* C20: spi0_init runs once in a call, before anything else; every transfer,
\* those of the FIT loader's read calls included, is issued while the
\* controller is initialised, after spi0_init and before spi0_deinit, which
\* is the last thing the call does.
C20_AcquireUseRelease ==
    /\ ~xferOff
    /\ inits = IF pc = "idle" THEN 0 ELSE 1
    /\ spi_on <=> (inits = 1 /\ deinits = 0)
    /\ deinits = 0 \/ pc = "done"
    /\ lastXfer # NoXfer => inits = 1
    /\ pc \in {"read_data", "nand_loop", "switch_poll", "switch_ret", "nand_reset"}
        => spi_on

\* C20 witness: a load from SPI NAND whose FIT loader read through the read
\* function has returned.
C20_Witness ==
    /\ Returned
    /\ boot_device = "SPINAND"
    /\ rd.site = "fit"
    /\ xlog # <<>>
    /\ inits = 1
    /\ deinits = 1

IsPrefix(a, b) == Len(a) <= Len(b) /\ a = SubSeq(b, 1, Len(a))

\* The build has a controller of the second generation.
GenerationB ==
    CONFIG_SOC \cap {"SUNXI_GEN_SUN6I", "SUN50I_GEN_H6", "SUNXI_GEN_NCAT2",
                     "MACH_SUN8I_V3S"} # {}

\* The register accesses C12 lists for the running spi0_xfer call, the
\* registers by their offsets from the base address of the call.
ExpectedAccesses ==
    LET n == Len(lastXfer.tx)
        m == lastXfer.rxlen
        base == xfer.r.ctl - 8
        reg == IF GenerationB
               THEN [bc |-> base + 48, tc |-> base + 52, bcc |-> base + 56,
                     tx |-> base + 512, ctl |-> base + 8, xch |-> 31,
                     fifo |-> base + 28, rx |-> base + 768]
               ELSE [bc |-> base + 32, tc |-> base + 36, bcc |-> 0,
                     tx |-> base + 4, ctl |-> base + 8, xch |-> 10,
                     fifo |-> base + 40, rx |-> base]
    IN <<[op |-> "writel", reg |-> reg.bc, val |-> n + m],
         [op |-> "writel", reg |-> reg.tc, val |-> n]>>
       \o (IF GenerationB THEN <<[op |-> "writel", reg |-> reg.bcc, val |-> n]>>
           ELSE <<>>)
       \o [i \in 1..n |-> [op |-> "writeb", reg |-> reg.tx, val |-> lastXfer.tx[i]]]
       \o <<[op |-> "setbits", reg |-> reg.ctl, val |-> reg.xch],
            [op |-> "readl", reg |-> reg.fifo, val |-> 0]>>
       \o [i \in 1..(n + m) |-> [op |-> "readb", reg |-> reg.rx, val |-> i]]

\* C12: the register accesses of a spi0_xfer call are, in this order and
\* once each: burst counter := tx_len + rx_len, transfer counter := tx_len,
\* in generation B the secondary counter := tx_len, the tx bytes to the TX
\* register in buffer order, the start bit, the FIFO status poll, tx_len
\* reads of the RX register that are dropped, rx_len reads of it that are
\* stored in order. When the start bit is set all tx bytes are queued, and
\* the receive buffer holds bytes tx_len + 1 .. tx_len + rx_len of the
\* stream the controller clocked in.
C12_AccessOrder ==
    xfer.pc # "idle" =>
        LET n == Len(lastXfer.tx)
            m == lastXfer.rxlen
        IN /\ IsPrefix(xtrace, ExpectedAccesses)
           /\ xfer.pc = "ret" =>
                /\ xtrace = ExpectedAccesses
                /\ xfer.rxbuf = [i \in 1..m |-> n + i]
                /\ hw.wire = lastXfer.tx
           /\ IsPrefix(xfer.rxbuf, [i \in 1..m |-> n + i])
           /\ (\E k \in 1..Len(xtrace) : xtrace[k].op = "setbits") =>
                hw.wire \o hw.txfifo = lastXfer.tx
           /\ hw.xch => hw.bc = n + m

\* C12 witness: a Read Data Bytes transfer of 4 + 60 bytes has returned on a
\* controller of generation B, 73 register accesses behind it.
C12_Witness ==
    /\ xfer.pc = "ret"
    /\ GenerationB
    /\ lastXfer = [tx |-> <<3, 0, 135, 208>>, rxlen |-> 60]
    /\ Len(xtrace) = 73
    /\ xfer.rxbuf[60] = 64

\* The RX FIFO has held all bytes of the transfer.
C13_FifoFilled == hw.clocked = Len(lastXfer.tx) + lastXfer.rxlen

\* The safety part of C13: the RX register is not read before the RX FIFO
\* has held tx_len + rx_len bytes, and each of its reads finds a byte; a
\* transfer returns, and its load reaches the teardown, only if the FIFO
\* filled; no status is set.
C13_WaitSafe ==
    /\ (\/ xfer.pc \in {"skip", "rx", "ret"}
        \/ pc \in {"deinit", "done"}
        \/ deinits # 0
        \/ \E k \in 1..Len(xtrace) : xtrace[k].op = "readb") => C13_FifoFilled
    /\ \A k \in 1..Len(xtrace) : xtrace[k].op = "readb" => xtrace[k].val # 0
    /\ ret = 0

\* C13: the wait for the FIFO has no timeout. The RX register is not read
\* before the low 7 bits of the FIFO status have reached tx_len + rx_len; a
\* transfer whose FIFO fills returns; a transfer whose FIFO never fills
\* never returns, sets no status, and its load never reaches the teardown.
C13_NoTimeout ==
    /\ []C13_WaitSafe
    /\ (xfer.pc = "wait" /\ C13_FifoFilled) ~> (xfer.pc = "ret")

\* C13 witness: a transfer whose wait found the FIFO short of its bytes at
\* least once has returned.
C13_Witness ==
    /\ xfer.pc = "ret"
    /\ xfer.spun
    /\ lastXfer.rxlen = 60
    /\ C13_FifoFilled

\* The read calls of spl_spi_try_load made at one call site.
ReadsAt(site) == SelectSeq(reads, LAMBDA e : e.site = site)

\* The load is past spl_spi_try_load: spi0_deinit is next or done.
DispatchOver == pc \in {"deinit", "done"}

\* C24, in every state: the header is read at most once and exactly once
\* when spl_spi_try_load is over, the payload at most once, the FIT loader
\* and the legacy parser are called at most once between them, and the
\* payload is read only after the parser was called.
C24_Once ==
    /\ Len(ReadsAt("hdr")) <= 1
    /\ Len(ReadsAt("payload")) <= 1
    /\ Len(reads) = Len(ReadsAt("hdr")) + Len(ReadsAt("payload"))
    /\ fitCalls + parseCalls <= 1
    /\ Len(ReadsAt("payload")) = 1 => (parseCalls = 1 /\ fitCalls = 0)
    /\ DispatchOver => Len(ReadsAt("hdr")) = 1

\* C24, in every step: once spl_spi_try_load is over, with an error or
\* without, nothing is read, no transfer is made and no loader or parser is
\* called; the boot device and the read function, once chosen, stay.
C24_NothingAfter ==
    /\ DispatchOver =>
        /\ reads' = reads
        /\ rd' = rd
        /\ xlog' = xlog
        /\ lastXfer' = lastXfer
        /\ fitCalls' = fitCalls
        /\ parseCalls' = parseCalls
        /\ fitReads' = fitReads
        /\ ret' = ret
        /\ pc' \in {"deinit", "done"}
    /\ boot_device # "none" => boot_device' = boot_device
    /\ load_read # "none" => load_read' = load_read

\* C24: the dispatch does not retry. The header is read exactly once, at
\* most one of the FIT loader and the legacy parser is called and at most
\* once, at most one payload read follows, and after spl_spi_try_load
\* returned, failed or not, no further read, transfer, loader or boot source
\* is tried.
C24_NoRetry == []C24_Once /\ [][C24_NothingAfter]_vars

\* C24 witness: a load that failed on its header read has returned with
\* that one read and no loader or parser call.
C24_Witness ==
    /\ pc = "done"
    /\ ret = -22
    /\ Len(reads) = 1
    /\ reads[1].site = "hdr"
    /\ timedOut
    /\ fitCalls = 0
    /\ parseCalls = 0

\* C27: every data transfer of a NOR read at address a sends the four bytes
\* 03h, (a >> 16) mod 256, (a >> 8) mod 256, a mod 256, which spell a mod
\* 2^24: an address of 2^24 or more, reached by the caller or by advancing
\* through a read, goes out truncated, the read goes on and returns its count.
C27_NorHeader ==
    load_read = "nor" =>
        /\ \A i \in 1..Len(xlog) :
            LET a == xlog[i].addr
                h == xlog[i].hdr
            IN /\ Len(h) = 4
               /\ h[1] = 3
               /\ h[2] = (a \div 65536) % 256
               /\ h[3] = (a \div 256) % 256
               /\ h[4] = a % 256
               /\ h[2] * 65536 + h[3] * 256 + h[4] = a % 16777216
               /\ a >= 16777216 =>
                    h[2] * 65536 + h[3] * 256 + h[4] = a - 16777216
        /\ (pc = "read_ret" /\ rd.sector + rd.count > 16777216) =>
            /\ rv = rd.count
            /\ ~timedOut

\* C27 witness: a NOR read of 61 bytes at 2^24 - 30 has returned 61; its
\* second transfer, at address 2^24 + 30, went out as 03h 00h 00h 1Eh.
C27_Witness ==
    /\ pc = "read_ret"
    /\ load_read = "nor"
    /\ rd.sector = 16777186
    /\ rd.count = 61
    /\ rv = 61
    /\ Len(xlog) = 2
    /\ xlog[1].hdr = <<3, 255, 255, 226>>
    /\ xlog[2].addr = 16777246
    /\ xlog[2].hdr = <<3, 0, 0, 30>>

\* C28: in a NAND read every data transfer asks for 1 to 60 bytes and sends
\* 03h, column high byte, column low byte, 00h; the first transfer behind a
\* page switch starts at the column of the read's position in that page
\* (address mod page size for the first page, 0 for a later one) and each
\* further one at the column behind the previous chunk; the log starts with
\* a page switch, the switched pages strictly ascend, so that one switch
\* precedes all chunks of a page, and the switch sends 13h and the page
\* number as three bytes, high byte first, each cut to a byte.
C28_NandFraming ==
    load_read = "nand" =>
        \A i \in 1..Len(xlog) :
            LET e == xlog[i]
            IN /\ i = 1 => e.kind = "switch"
               /\ e.kind = "switch" =>
                    /\ e.hdr = <<19, (e.addr \div 65536) % 256,
                                 (e.addr \div 256) % 256, e.addr % 256>>
                    /\ e.len = 0
                    /\ \A j \in 1..(i - 1) :
                        xlog[j].kind = "switch" => xlog[j].addr < e.addr
                    /\ i > 1 => xlog[i - 1].kind = "data"
               /\ e.kind = "data" =>
                    /\ e.len \in 1..60
                    /\ e.hdr = <<3, (e.addr \div 256) % 256, e.addr % 256, 0>>
                    /\ e.addr + e.len <= pagesize
                    /\ xlog[i - 1].kind = "switch" =>
                        e.addr = IF i = 2 THEN rd.sector % pagesize ELSE 0
                    /\ xlog[i - 1].kind = "data" =>
                        e.addr = xlog[i - 1].addr + xlog[i - 1].len

\* C28 witness: 61 bytes at 2047 with 512-byte pages: the switch to page 3,
\* one byte from column 511 (03h 01h FFh 00h), the switch to page 4 and 60
\* bytes from column 0.
C28_Witness ==
    /\ pc = "read_ret"
    /\ load_read = "nand"
    /\ pagesize = 512
    /\ rd.sector = 2047
    /\ rd.count = 61
    /\ Len(xlog) = 4
    /\ xlog[1].hdr = <<19, 0, 0, 3>>
    /\ xlog[2].hdr = <<3, 1, 255, 0>>
    /\ xlog[2].len = 1
    /\ xlog[3].hdr = <<19, 0, 0, 4>>
    /\ xlog[4].hdr = <<3, 0, 0, 0>>
    /\ xlog[4].len = 60

\* A read function is running.
InRead == pc \in {"read_data", "nand_loop", "switch_poll", "switch_ret"}

\* C29, in every state: a chunk and the share of a page are never empty,
\* also when the read starts at the last byte of a page; the status loop of
\* a page switch has run at most 100 busy rounds; a read of no bytes has
\* made no transfer.
C29_Progress ==
    /\ \A i \in 1..Len(xlog) : xlog[i].kind = "data" => xlog[i].len >= 1
    /\ (load_read = "nand" /\ pc \in {"switch_poll", "switch_ret", "read_data"}) =>
        /\ nand.count_in_page >= 1
        /\ nand.count_in_page <= nand.remain
    /\ sw.count <= 100
    /\ ((InRead \/ pc = "read_ret") /\ rd.count = 0) => (xlog = <<>> /\ rv = 0)

\* C29, in every step: an iteration of spi0_read_data takes at least one
\* byte off len, an iteration of spi_load_read_nand at least one off remain,
\* a busy poll adds one to the count of the status loop, and a read of no
\* bytes makes no transfer.
C29_Decrease ==
    /\ (pc = "read_data" /\ pc' = "read_data") => rdd'.len < rdd.len
    /\ (pc = "read_data" /\ pc' = "nand_loop") => nand'.remain < nand.remain
    /\ (pc = "switch_poll" /\ pc' = "switch_poll") => sw'.count = sw.count + 1
    /\ (InRead /\ rd.count = 0) => lastXfer' = lastXfer

\* C29: with every bus transfer completing, a call of spi_load_read_nor or
\* spi_load_read_nand returns, whatever its length and offset: every
\* iteration consumes at least one byte, the NAND read stops at a page
\* switch that timed out, and a read of length 0 makes no transfer.
C29_Terminates ==
    /\ []C29_Progress
    /\ [][C29_Decrease]_vars
    /\ (InRead ~> (pc = "read_ret"))

\* C29 witness: a NAND read of 200 bytes that started at the last byte of a
\* 2048-byte page has returned: one byte of page 0, then 199 of page 1.
C29_Witness ==
    /\ pc = "read_ret"
    /\ load_read = "nand"
    /\ pagesize = 2048
    /\ rd.sector = 2047
    /\ rd.count = 200
    /\ rv = 200
    /\ xlog[2].len = 1
    /\ Len(xlog) = 7

\* C30: a read function returns 0 or the count it was asked for, never a
\* part of it: spi_load_read_nor always the count; spi_load_read_nand the
\* count when every page switch succeeded and 0 when one timed out, whatever
\* was transferred before.
C30_AllOrNothing ==
    pc = "read_ret" =>
        /\ rv \in {0, rd.count}
        /\ load_read = "nor" => (rv = rd.count /\ ~timedOut)
        /\ load_read = "nand" => rv = (IF timedOut THEN 0 ELSE rd.count)
        /\ timedOut <=> (xlog # <<>> /\ Last(xlog).kind = "switch")

\* C30 witness: a NAND read of 200 bytes at 2000 transferred the 48 bytes of
\* its first page, timed out switching to the second and returned 0.
C30_Witness ==
    /\ pc = "read_ret"
    /\ load_read = "nand"
    /\ pagesize = 2048
    /\ rd.sector = 2000
    /\ rd.count = 200
    /\ timedOut
    /\ Len(xlog) = 3
    /\ xlog[2].len = 48
    /\ rv = 0

\* The control register of the build's controller: offset 4 (generation B)
\* or 8 (generation A) from its base.
CtlRegValue == creg.mem[spi0_base_address + (IF GenerationB THEN 4 ELSE 8)]

\* spi0_init has returned and spi0_deinit is not yet called: the state in
\* which the load makes its transfers.
Initialised == pc = "xfer" /\ ctl.fn = "none"

\* In ctrace a write that sets the bits of mask in the control register is
\* followed at once by a read of that register.
ResetAndReadBack(mask) ==
    \E k \in 1..(Len(ctrace) - 1) :
        /\ ctrace[k].op = "setbits"
        /\ ctrace[k].dev = "spi"
        /\ mask \subseteq ctrace[k].val
        /\ ctrace[k + 1].op = "readl"
        /\ ctrace[k + 1].reg = ctrace[k].reg

\* C21 as stated: on either generation spi0_init requests a reset of the
\* controller, reads the request bit back before it returns, and no
\* transfer runs while a reset request is set in the control register.
C21_Original ==
    Initialised =>
        /\ {0, 1} \subseteq CtlRegValue
        /\ ResetAndReadBack(IF GenerationB THEN {31} ELSE {8, 9})
        /\ CtlRegValue \cap (IF GenerationB THEN {31} ELSE {8, 9}) = {}

\* C21: when spi0_init has returned the master and enable bits (1 and 0) of
\* the control register are set. On generation B it has set them together
\* with the soft-reset bit 31 of GCR and has read GCR back until bit 31 was
\* clear, so that bit 31 is clear whenever a transfer of the load runs. On
\* generation A it has set them together with the FIFO-reset bits 8 and 9
\* of CTL as its last access and has read nothing back.
C21_ResetWait ==
    Initialised =>
        /\ {0, 1} \subseteq CtlRegValue
        /\ GenerationB =>
            /\ ResetAndReadBack({0, 1, 31})
            /\ 31 \notin CtlRegValue
        /\ ~GenerationB =>
            /\ Last(ctrace).op = "setbits"
            /\ Last(ctrace).reg = spi0_base_address + 8
            /\ Last(ctrace).val = {0, 1, 8, 9}
            /\ \A k \in 1..Len(ctrace) : ctrace[k].op # "readl"

\* C21 witness: on generation B spi0_init found the soft reset pending at
\* least once, returned when it was over, and a transfer is waiting for its
\* FIFO.
C21_Witness ==
    /\ GenerationB
    /\ Initialised
    /\ ctl.spun
    /\ xfer.pc = "wait"
    /\ 31 \notin CtlRegValue

\* spi0_deinit was the last call and has returned.
AfterDeinit == ctl.fn = "none" /\ hist.lastFn = "deinit"

\* The pins spi0_init configures in this build.
InitPins ==
    {spi0_init[k].reg : k \in {j \in 1..Len(spi0_init) : spi0_init[j].dev = "pio"}}

\* What C22 says of the control register and of the pins behind spi0_deinit:
\* enable and master are 0, no other bit of the control register has changed
\* (bits that request a reset aside, which the controller clears), every
\* pin spi0_init configures is disabled on generation B and an input on
\* generation A, and no other pin has changed.
C22_ControlAndPins ==
    /\ CtlRegValue \cap {0, 1} = {}
    /\ CtlRegValue \ {8, 9, 31} =
       hist.entry.mem[spi0_base_address + (IF GenerationB THEN 4 ELSE 8)]
           \ {0, 1, 8, 9, 31}
    /\ \A p \in InitPins :
        creg.pins[p] = IF GenerationB THEN "SUNXI_GPIO_DISABLE"
                       ELSE "SUNXI_GPIO_INPUT"
    /\ \A p \in DOMAIN creg.pins \ InitPins : creg.pins[p] = hist.entry.pins[p]

\* C22 as stated: behind spi0_deinit, on every build, the above holds and
\* the SPI clock register of the CCM holds 0.
C22_Original ==
    AfterDeinit =>
        /\ C22_ControlAndPins
        /\ creg.mem[CCM_SPI0_CLK] = {}

\* C22: behind spi0_deinit, on every build, enable and master are 0 with the
\* other bits of the control register unchanged, and the pins spi0_init
\* configures are disabled (generation B) or inputs (generation A); the SPI
\* clock register of the CCM holds 0 on every build but suniv, where
\* spi0_deinit leaves it as it found it.
C22_Deinit ==
    AfterDeinit =>
        /\ C22_ControlAndPins
        /\ "MACH_SUNIV" \notin CONFIG_SOC => creg.mem[CCM_SPI0_CLK] = {}
        /\ "MACH_SUNIV" \in CONFIG_SOC =>
            creg.mem[CCM_SPI0_CLK] = hist.entry.mem[CCM_SPI0_CLK]

\* C22 witness: on the H6 build spi0_deinit has returned behind a spi0_init
\* that found the controller on: bit 7 of GCR is still set, the clock
\* register is 0, PC5 is disabled and PC1 was never touched.
C22_Witness ==
    /\ AfterDeinit
    /\ hist.prevFn = "init"
    /\ "MACH_SUN50I_H6" \in CONFIG_SOC
    /\ CtlRegValue = {7}
    /\ creg.mem[CCM_SPI0_CLK] = {}
    /\ creg.pins[5] = "SUNXI_GPIO_DISABLE"
    /\ creg.pins[1] = "unset"

\* The registers and pins with the reset requests of the control register,
\* which the controller clears by itself, left out.
Settled(c) ==
    [c EXCEPT !.mem[spi0_base_address + (IF GenerationB THEN 4 ELSE 8)] =
                  @ \ (IF GenerationB THEN {31} ELSE {8, 9})]

\* C23: spi0_init and spi0_deinit make the same sequence of register and
\* pin accesses whatever state they are called in (each call's sequence is
\* that of the first call of the same function, which began in another
\* state), they set no error status, and they are idempotent: a call that
\* follows a call of the same function leaves registers and pins as it
\* found them, that is as the first of the two left them.
C23_Idempotent ==
    /\ ret = 0
    /\ (ctl.fn = "none" /\ hist.calls >= 1) =>
        /\ ctrace # <<>>
        /\ ctrace = hist.first[hist.lastFn]
    /\ (ctl.fn = "none" /\ hist.calls >= 2 /\ hist.prevFn = hist.lastFn) =>
        Settled(creg) = Settled(hist.entry)

\* C23 witness: the third call in a row, a spi0_init behind a spi0_init on
\* generation B, has returned after waiting for its soft reset; the first
\* call was a spi0_deinit and the controller was on before it.
C23_Witness ==
    /\ ctl.fn = "none"
    /\ hist.calls = 3
    /\ hist.lastFn = "init"
    /\ hist.prevFn = "init"
    /\ hist.first.deinit # <<>>
    /\ GenerationB
    /\ ctl.spun
    /\ CtlRegValue = {0, 1, 7}

\* spi0_init was the last call and has returned.
AfterInit == ctl.fn = "none" /\ hist.lastFn = "init"

\* The clock control register of the controller: offset 36 (generation B)
\* or 28 (generation A) from its base.
CctlReg == spi0_base_address + (IF GenerationB THEN 36 ELSE 28)

\* What C25 says of the divider behind spi0_init: 0x100f, divide by 32, on
\* suniv; no write to a register of the controller but its control registers
\* on NCAT2; 0x1001, a direct divide by 4, on every other build.
C25_Divider ==
    IF "MACH_SUNIV" \in CONFIG_SOC
    THEN creg.mem[CctlReg] = {12, 3, 2, 1, 0}
    ELSE IF "SUNXI_GEN_NCAT2" \in CONFIG_SOC
    THEN /\ creg.mem[CctlReg] = hist.entry.mem[CctlReg]
         /\ \A k \in 1..Len(ctrace) :
                ctrace[k].dev = "spi" => ctrace[k].op # "writel"
    ELSE creg.mem[CctlReg] = {12, 0}

WritesOf(trace, reg, val) ==
    {k \in 1..Len(trace) : /\ trace[k].op = "writel"
                           /\ trace[k].reg = reg
                           /\ trace[k].val = val}

\* C26: the generation of the build alone decides the registers used. On
\* generation B a transfer writes tx_len to the secondary counter at offset
\* 56, once, before it sets bit 31 of the transfer control register at
\* offset 8 to start; on generation A no access goes to offset 56 and the
\* start bit is bit 10 of the control register at offset 8. In all of a
\* load, spi0_init, every transfer and spi0_deinit, each access to the
\* controller is at an offset of the build's generation from the one base
\* address of the build.
C26_OneRegisterSet ==
    LET base == spi0_base_address
        xferOffsets == IF GenerationB THEN {48, 52, 56, 512, 8, 28, 768}
                       ELSE {32, 36, 4, 8, 40, 0}
        ctlOffsets == IF GenerationB THEN {4, 8, 36} ELSE {8, 28}
    IN /\ base \in {29380608, 83951616, 67260416, 29786112}
       /\ \A k \in 1..Len(xtrace) :
            /\ xtrace[k].reg - base \in xferOffsets
            /\ xtrace[k].op = "setbits" =>
                /\ xtrace[k].reg = base + 8
                /\ xtrace[k].val = IF GenerationB THEN 31 ELSE 10
                /\ GenerationB =>
                    \E j \in 1..(k - 1) :
                        WritesOf(xtrace, base + 56, Len(lastXfer.tx)) = {j}
            /\ ~GenerationB => xtrace[k].reg # base + 56
       /\ \A k \in 1..Len(ctrace) :
            ctrace[k].dev = "spi" => ctrace[k].reg - base \in ctlOffsets
       /\ xfer.pc # "idle" => xfer.r.ctl = base + 8

\* C26 witness: on generation A the second transfer of a load, a Read Data
\* Bytes of 4 + 60 bytes, has returned: it was started with bit 10 of the
\* register at 0x01C05008 and the load's spi0_init wrote to the same base.
C26_Witness ==
    /\ ~GenerationB
    /\ hist.xfers = 2
    /\ xfer.pc = "ret"
    /\ lastXfer.rxlen = 60
    /\ \E k \in 1..Len(xtrace) :
        xtrace[k] = [op |-> "setbits", reg |-> 29380616, val |-> 10]
    /\ Last(ctrace).reg = 29380616
    /\ hist.lastFn = "init"

\* The function whose accesses ctrace holds: the one running, else the last.
TracedFn == IF ctl.fn # "none" THEN ctl.fn ELSE hist.lastFn

\* The pin functions that connect a pin to the SPI controller.
SpiPinFunctions == {"SUNXI_GPC_SPI0", "SUN50I_GPC_SPI0", "SUNIV_GPC_SPI0"}

\* C31: spi0_init configures all its pins before its first access to the
\* clock registers and the controller, and the pins have their SPI function
\* while the load makes its transfers; spi0_deinit begins by clearing enable
\* and master, disables the clock, and touches the pins only after all its
\* register accesses; when the load has returned the controller is
\* disabled and no pin spi0_init configured has an SPI function.
C31_SetupOrder ==
    /\ TracedFn = "init" =>
        \A j, k \in 1..Len(ctrace) :
            (j < k /\ ctrace[k].dev = "pio") => ctrace[j].dev = "pio"
    /\ TracedFn = "deinit" =>
        /\ \A j, k \in 1..Len(ctrace) :
            (j < k /\ ctrace[j].dev = "pio") => ctrace[k].dev = "pio"
        /\ ctrace # <<>> =>
            /\ ctrace[1].op = "clrbits"
            /\ ctrace[1].dev = "spi"
            /\ ctrace[1].val = {0, 1}
        /\ (\E k \in 1..Len(ctrace) : ctrace[k].dev = "pio") =>
            /\ CtlRegValue \cap {0, 1} = {}
            /\ \E k \in 1..Len(ctrace) : ctrace[k].dev = "ccm"
    /\ Initialised =>
        /\ \A p \in InitPins : creg.pins[p] \in SpiPinFunctions
        /\ \E k \in 1..Len(ctrace) : ctrace[k].dev = "ccm"
    /\ pc = "done" =>
        /\ CtlRegValue \cap {0, 1} = {}
        /\ \A p \in InitPins : creg.pins[p] \notin SpiPinFunctions

\* C31 witness: a load on the A10 has returned: its spi0_deinit cleared
\* enable and master first and made PC23 an input last.
C31_Witness ==
    /\ pc = "done"
    /\ "MACH_SUN4I" \in CONFIG_SOC
    /\ hist.xfers = 2
    /\ ctrace[1].op = "clrbits"
    /\ Last(ctrace) = [op |-> "set_cfgpin", dev |-> "pio", reg |-> 23,
                       val |-> {}, fn |-> "SUNXI_GPIO_INPUT"]
    /\ creg.pins[0] = "SUNXI_GPIO_INPUT"

\* The depth of the controller's FIFOs, and the largest value the 7-bit
\* occupancy field read through "& 0x7F" can hold.
FifoDepth == SPI_READ_MAX_SIZE + 4
OccupancyMax == 127

\* C32: every transfer the loader issues is a reset (1 + 0), a page switch
\* (4 + 0), a status poll (2 + 1) or a data read (4 + chunk, 1 <= chunk <=
\* 60); so txlen + rxlen never exceeds the 64 bytes of the FIFO nor 127, and
\* the occupancy the wait loop compares with, masked to 7 bits, can reach it.
C32_FitsFifo ==
    lastXfer # NoXfer =>
        LET txlen == Len(lastXfer.tx)
            rxlen == lastXfer.rxlen
        IN /\ \/ lastXfer.tx = <<255>> /\ rxlen = 0
              \/ txlen = 4 /\ lastXfer.tx[1] = 19 /\ rxlen = 0
              \/ lastXfer.tx = <<15, 192>> /\ rxlen = 1
              \/ /\ txlen = 4
                 /\ lastXfer.tx[1] = 3
                 /\ rxlen \in 1..SPI_READ_MAX_SIZE
           /\ txlen + rxlen <= FifoDepth
           /\ txlen + rxlen <= OccupancyMax
           /\ \E occupancy \in 0..FifoDepth :
                ~((occupancy % 128) < txlen + rxlen)

\* C32 witness: a NAND page read has just issued a full chunk, 4 + 60 bytes.
C32_Witness ==
    /\ pc = "read_data"
    /\ load_read = "nand"
    /\ Len(lastXfer.tx) + lastXfer.rxlen = 64
    /\ rdd.len > 0

\* C33: once the switch on the boot device is behind it, the load has the
\* NOR read function and allow_raw = TRUE on BOOT_DEVICE_SPI, and the NAND
\* read function and allow_raw = FALSE on BOOT_DEVICE_SPINAND; a read is
\* only ever called with a read function set; and neither the read function,
\* once set, nor allow_raw, once the load has begun, changes again.
C33_Selection ==
    /\ [](/\ pc \notin {"idle", "nand_reset"} =>
              /\ boot_device \in {"SPI", "SPINAND"}
              /\ load_read = (IF boot_device = "SPI" THEN "nor" ELSE "nand")
              /\ allow_raw = (boot_device = "SPI")
          /\ (reads # <<>> \/ rd # NoRd) => load_read \in {"nor", "nand"})
    /\ [][/\ load_read # "none" => load_read' = load_read
          /\ pc # "idle" => allow_raw' = allow_raw
          /\ pc # "idle" => boot_device' = boot_device]_vars

\* C33 witness: on BOOT_DEVICE_SPINAND the header read has returned, made by
\* the NAND read function with raw images not allowed.
C33_Witness ==
    /\ pc = "read_ret"
    /\ rd.site = "hdr"
    /\ boot_device = "SPINAND"
    /\ load_read = "nand"
    /\ ~allow_raw
    /\ Len(reads) = 1

\* The transfers of a read that stored received bytes at the destination.
WritesTo(log) == SelectSeq(log, LAMBDA e : e.kind = "data")

\* C34: after spi_load_read_nand gave up on a page-switch timeout, and until
\* the next read is called, the call's return value is 0 and the destination
\* holds what the pages before the failing one delivered: the data transfers
\* made wrote rd.count - remain bytes, back to back from the start of the
\* buffer; when the failing switch is the k-th (k > 1), these are the bytes
\* up to the end of the (k-1)-th page, at least one; and no transfer
\* follows the failing switch.
C34_PartialWrite ==
    (load_read = "nand" /\ timedOut /\ ~InRead) =>
        LET data == WritesTo(xlog)
            done == rd.count - nand.remain
            k == Len(SwitchesOf(xlog))
        IN /\ pc = "read_ret" => rv = 0
           /\ Last(xlog).kind = "switch"
           /\ lastXfer.tx = <<15, 192>>
           /\ SumLen(data, Len(data)) = done
           /\ \A i \in 1..Len(data) :
                data[i].dst = rd.buf + SumLen(data, i - 1)
           /\ nand.buf = rd.buf + done
           /\ done < rd.count
           /\ k = 1 => (done = 0 /\ data = <<>>)
           /\ k > 1 =>
                /\ done > 0
                /\ (rd.sector + done) % pagesize = 0
                /\ (rd.sector + done) \div pagesize =
                   (rd.sector \div pagesize) + (k - 1)

\* C34 witness: a payload read of 4096 bytes at 34768 with 2048-byte pages
\* timed out switching to its third page: the 48 and 2048 bytes of the first
\* two pages were stored and the read returned 0.
C34_Witness ==
    /\ pc = "read_ret"
    /\ rd.site = "payload"
    /\ load_read = "nand"
    /\ timedOut
    /\ pagesize = 2048
    /\ rd.sector = 34768
    /\ rd.count = 4096
    /\ Len(SwitchesOf(xlog)) = 3
    /\ SumLen(WritesTo(xlog), Len(WritesTo(xlog))) = 2096
    /\ rv = 0

\* C35: when the parser accepted a legacy header and set a payload size of
\* 0, on either boot device the payload read is called with count 0, makes
\* no transfer (no page switch, no poll, no data read) and returns 0, and
\* the load returns -EINVAL.
C35_EmptyPayload ==
    (rd.site = "payload" /\ IsLegacy(header) /\ spl_image.size = 0) =>
        /\ boot_device \in {"SPI", "SPINAND"}
        /\ rd.count = 0
        /\ reads[2].count = 0
        /\ xlog = <<>>
        /\ pc \in {"read_data", "nand_loop", "read_ret", "deinit", "done"}
        /\ ~timedOut
        /\ lastXfer.tx[1] = 3
        /\ pc \in {"read_ret", "deinit", "done"} => rv = 0
        /\ pc \in {"deinit", "done"} => ret = -EINVAL

\* C35 witness: a load from SPI NAND has returned -EINVAL on a legacy image
\* of size 0, its payload read having made no transfer.
C35_Witness ==
    /\ Returned
    /\ boot_device = "SPINAND"
    /\ IsLegacy(header)
    /\ spl_image.size = 0
    /\ rd.site = "payload"
    /\ xlog = <<>>
    /\ rv = 0
    /\ ret = -22

\* C36: spinand_spl_read_block(block, offset, len, dst) calls the NAND read
\* function with sector block * CONFIG_SPL_SPINAND_BLOCK_SIZE + offset, count
\* len and buffer dst: the read starts with a page switch to the page of
\* that byte and, no switch timing out, transfers len bytes; the call
\* returns 0 whether the read returned len or was aborted on a timeout; and
\* from its entry to its return no spi0_init, spi0_deinit or
\* spi0_nand_reset is run and the controller stays as it was.
C36_ReadBlock ==
    /\ [](blk.state # "none" =>
            /\ rd = [site |-> "block",
                     sector |-> (blk.block * blk.bs) + blk.offset,
                     count |-> blk.len, buf |-> blk.dst]
            /\ xlog # <<>> =>
                /\ xlog[1].kind = "switch"
                /\ xlog[1].addr = rd.sector \div pagesize
                /\ \A i \in 1..Len(xlog) :
                    xlog[i].kind = "data" => xlog[i].hdr[4] = 0
            /\ pc # "blk_done" => ctlVars = blk.entry
            /\ ctl = NoCtl
            /\ ctrace = <<>>
            /\ blk.state = "called" => (pc = "read_ret" \/ InRead)
            /\ blk.state = "returned" =>
                /\ blk.ret = 0
                /\ rv = (IF timedOut THEN 0 ELSE blk.len)
                /\ ~timedOut =>
                     SumLen(WritesTo(xlog), Len(WritesTo(xlog))) = blk.len)
    /\ [][blk.state = "called" =>
            /\ UNCHANGED ctlVars
            /\ UNCHANGED <<ctl, creg, ctrace>>
            /\ blk'.block = blk.block
            /\ blk'.offset = blk.offset
            /\ blk'.len = blk.len
            /\ blk'.dst = blk.dst]_vars

\* C36 witness: spinand_spl_read_block(3, 2000, 100, dst) with 128 KiB
\* blocks and 2048-byte pages has returned 0 after the switch to the second
\* page of its read timed out.
C36_Witness ==
    /\ pc = "blk_ready"
    /\ blk.state = "returned"
    /\ blk.bs = 131072
    /\ blk.block = 3
    /\ blk.offset = 2000
    /\ blk.len = 100
    /\ pagesize = 2048
    /\ rd.sector = 395216
    /\ timedOut
    /\ Len(SwitchesOf(xlog)) = 2
    /\ rv = 0
    /\ blk.ret = 0
    /\ inits = 1
    /\ deinits = 0

Next ==
    \/ SplSpiLoadImage_Begin
    \/ Spi0NandReset
    \/ TryLoad_ReadHeader
    \/ Spi0ReadData_Chunk
    \/ SpiLoadReadNor_Return
    \/ SpiLoadReadNand_SwitchPage
    \/ SpiLoadReadNand_Return
    \/ Spi0NandSwitchPage_Poll
    \/ Spi0NandSwitchPage_Timeout
    \/ SpiLoadReadNand_Abort
    \/ SpiLoadReadNand_ReadPage
    \/ SpiLoadReadNand_NextPage
    \/ TryLoad_HeaderReadFailed
    \/ TryLoad_LoadFit
    \/ TryLoad_BadImage
    \/ TryLoad_ParseFailed
    \/ TryLoad_ReadPayload
    \/ TryLoad_AfterPayload
    \/ Fit_Read
    \/ Fit_ReadReturn
    \/ Fit_Return
    \/ TryLoad_AfterFit
    \/ SplSpiLoadImage_Finish

Spec == Init /\ [][Next]_vars

\* The load as the boot CPU runs it: single-threaded, no interrupt, so a step
\* that can be taken is taken.
SpecFair == Spec /\ WF_vars(Next)

\* A load from SPI NAND is about to call spi0_init: the load offset is
\* computed, the controller and the CCM are as the boot ROM left them.
InitXfer ==
    /\ CONFIG_SOC \in SocConfigs
    /\ CONFIG_SPL_LOAD_FIT = TRUE
    /\ CONFIG_SPL_SPINAND_SUPPORT = TRUE
    /\ pagesize = 2048
    /\ pc = "init"
    /\ boot_device = "SPINAND"
    /\ spl_size = 24576
    /\ load_offset = 32768
    /\ load_read = "none"
    /\ allow_raw = FALSE
    /\ ret = 0
    /\ header = NoHeader
    /\ spl_image = [size |-> 0, load_addr |-> 0]
    /\ rd = NoRd
    /\ rv = 0
    /\ nand = NoNand
    /\ sw = NoSw
    /\ rdd = NoRdd
    /\ spi_on = FALSE
    /\ inits = 0
    /\ deinits = 0
    /\ resets = 0
    /\ lastXfer = NoXfer
    /\ lastDelay = 0
    /\ xferOff = FALSE
    /\ xlog = <<>>
    /\ reads = <<>>
    /\ parseCalls = 0
    /\ fitCalls = 0
    /\ fitReads = 0
    /\ timedOut = FALSE
    /\ coreTimedOut = FALSE
    /\ fitCall = NoFitCall
    /\ fitRet = 0
    /\ parseRet = 0
    /\ xfer = NoX
    /\ hw = HwIdle
    /\ xtrace = <<>>
    /\ ctl = NoCtl
    /\ \E p \in CtlPriors : creg = PriorRegs(p)
    /\ ctrace = <<>>
    /\ hist = NoHist
    /\ blk = NoBlk

\* The steps of the CPU in SpecXfer.
XferCode ==
    \/ Spi0Init_Enter
    \/ Spi0Ctl_Access
    \/ Spi0EnableClock_Wait
    \/ Spi0Init_Return
    \/ Spi0Xfer_Enter
    \/ SunxiSpi0Xfer_WriteBc
    \/ SunxiSpi0Xfer_WriteTc
    \/ SunxiSpi0Xfer_WriteBcc
    \/ SunxiSpi0Xfer_WriteTx
    \/ SunxiSpi0Xfer_Start
    \/ SunxiSpi0Xfer_Poll
    \/ SunxiSpi0Xfer_Skip
    \/ SunxiSpi0Xfer_Read
    \/ SunxiSpi0Xfer_Return
    \/ Spi0Deinit_Enter
    \/ Spi0Deinit_Return

NextXfer ==
    \/ Spi0Init_Enter
    \/ Spi0Ctl_Access
    \/ Spi0EnableClock_Wait
    \/ Spi0Init_Return
    \/ Spi0Xfer_Enter
    \/ SunxiSpi0Xfer_WriteBc
    \/ SunxiSpi0Xfer_WriteTc
    \/ SunxiSpi0Xfer_WriteBcc
    \/ SunxiSpi0Xfer_WriteTx
    \/ SunxiSpi0Xfer_Start
    \/ SunxiSpi0Xfer_Poll
    \/ SunxiSpi0Xfer_Skip
    \/ SunxiSpi0Xfer_Read
    \/ SunxiSpi0Xfer_Return
    \/ Spi0Deinit_Enter
    \/ Spi0Deinit_Return
    \/ Hw_Clock
    \/ Hw_ResetDone

SpecXfer == InitXfer /\ [][NextXfer]_vars

\* The CPU runs single-threaded and without interrupts: a step of the code
\* that can be taken is taken. Nothing is assumed of the controller.
SpecXferFair == SpecXfer /\ WF_vars(XferCode)

\* spi0_init and spi0_deinit as functions of the registers: called up to
\* MaxCtlCalls times in any order, from any of the prior states.
InitCtl ==
    /\ CONFIG_SOC \in SocConfigs
    /\ CONFIG_SPL_LOAD_FIT = TRUE
    /\ CONFIG_SPL_SPINAND_SUPPORT = TRUE
    /\ pagesize = 2048
    /\ pc = "ctl"
    /\ boot_device = "none"
    /\ spl_size = 0
    /\ load_offset = 0
    /\ load_read = "none"
    /\ allow_raw = FALSE
    /\ ret = 0
    /\ header = NoHeader
    /\ spl_image = [size |-> 0, load_addr |-> 0]
    /\ rd = NoRd
    /\ rv = 0
    /\ nand = NoNand
    /\ sw = NoSw
    /\ rdd = NoRdd
    /\ spi_on = FALSE
    /\ inits = 0
    /\ deinits = 0
    /\ resets = 0
    /\ lastXfer = NoXfer
    /\ lastDelay = 0
    /\ xferOff = FALSE
    /\ xlog = <<>>
    /\ reads = <<>>
    /\ parseCalls = 0
    /\ fitCalls = 0
    /\ fitReads = 0
    /\ timedOut = FALSE
    /\ coreTimedOut = FALSE
    /\ fitCall = NoFitCall
    /\ fitRet = 0
    /\ parseRet = 0
    /\ xfer = NoX
    /\ hw = HwIdle
    /\ xtrace = <<>>
    /\ ctl = NoCtl
    /\ \E p \in CtlPriors : creg = PriorRegs(p)
    /\ ctrace = <<>>
    /\ hist = NoHist
    /\ blk = NoBlk

NextCtl ==
    \/ Spi0Init_Enter
    \/ Spi0Deinit_Enter
    \/ Spi0Ctl_Access
    \/ Spi0EnableClock_Wait
    \/ Spi0Init_Return
    \/ Spi0Deinit_Return
    \/ Hw_ResetDone

SpecCtl == InitCtl /\ [][NextCtl]_vars

\* A build with the SPI NAND code, before spinand_init: nothing has run.
\* load_read names the read function that runs, spi_load_read_nand, which
\* spinand_spl_read_block calls directly.
InitBlock ==
    /\ CONFIG_SOC \in LoadSocConfigs
    /\ CONFIG_SPL_LOAD_FIT = FALSE
    /\ CONFIG_SPL_SPINAND_SUPPORT = TRUE
    /\ pagesize \in PageSizes
    /\ pc = "blk_idle"
    /\ boot_device = "none"
    /\ spl_size = 0
    /\ load_offset = 0
    /\ load_read = "nand"
    /\ allow_raw = FALSE
    /\ ret = 0
    /\ header = NoHeader
    /\ spl_image = [size |-> 0, load_addr |-> 0]
    /\ rd = NoRd
    /\ rv = 0
    /\ nand = NoNand
    /\ sw = NoSw
    /\ rdd = NoRdd
    /\ spi_on = FALSE
    /\ inits = 0
    /\ deinits = 0
    /\ resets = 0
    /\ lastXfer = NoXfer
    /\ lastDelay = 0
    /\ xferOff = FALSE
    /\ xlog = <<>>
    /\ reads = <<>>
    /\ parseCalls = 0
    /\ fitCalls = 0
    /\ fitReads = 0
    /\ timedOut = FALSE
    /\ coreTimedOut = FALSE
    /\ fitCall = NoFitCall
    /\ fitRet = 0
    /\ parseRet = 0
    /\ xfer = NoX
    /\ hw = HwIdle
    /\ xtrace = <<>>
    /\ ctl = NoCtl
    /\ creg = NoCreg
    /\ ctrace = <<>>
    /\ hist = NoHist
    /\ \E bs \in BlockSizes : blk = [NoBlk EXCEPT !.bs = bs]

\* spinand_init, any number of spinand_spl_read_block calls, each with the
\* steps of spi_load_read_nand, and spinand_deselect.
NextBlock ==
    \/ SpinandInit
    \/ SpinandSplReadBlock_Call
    \/ SpiLoadReadNand_SwitchPage
    \/ Spi0NandSwitchPage_Poll
    \/ Spi0NandSwitchPage_Timeout
    \/ SpiLoadReadNand_Abort
    \/ SpiLoadReadNand_ReadPage
    \/ Spi0ReadData_Chunk
    \/ SpiLoadReadNand_NextPage
    \/ SpiLoadReadNand_Return
    \/ SpinandSplReadBlock_Return
    \/ SpinandDeselect

SpecBlock == InitBlock /\ [][NextBlock]_vars
====
